---- MODULE Spec2Model ----
(***************************************************************************)
(* State-machine model of the ESP32-CAM / Gemini payload pipeline:         *)
(*   - the two base64 encoders (esp_cam_base64.c and jpeg_encoder.c),      *)
(*   - the incremental JSON builder (esp_cam_json.c),                      *)
(*   - the payload assembler ESP_CAM_CaptureAndGetGeminiPayload.           *)
(* Characters are one-character strings; bytes are naturals 0..255.        *)
(* Buffers are sequences of characters: the sequence holds the characters  *)
(* before the cursor (len, o or j in the C code).                          *)
(***************************************************************************)
EXTENDS Integers, Sequences, FiniteSets, TLC

VARIABLES
  \* --- esp_cam_base64_encode_stream driven chunk by chunk -----------------
  sInput,     \* the whole byte sequence x
  sPos,       \* number of bytes of x handed to the encoder so far
  sState,     \* the caller's uint8_t state byte
  sOut,       \* concatenation of the output_len characters of every call
  sCalls,     \* number of esp_cam_base64_encode_stream calls made
  sWhole,     \* result of esp_cam_base64_encode(x): "none" or [out, nul]
  \* --- encode_base64_chunk / encode_base64_finalize -----------------------
  cInput,     \* the whole byte sequence
  cPos,       \* bytes consumed by encode_base64_chunk calls
  cState,     \* base64_state_t: [buffer, buffer_size, total_bytes]
  cOut,       \* concatenation of the characters returned by the calls
  cCalls,     \* number of encode_base64_chunk calls made
  cFin,       \* "none" or the record returned by encode_base64_finalize
  cLast,      \* the last call: its arguments, the state before, its result
  \* --- encode_base64 (one shot) -------------------------------------------
  oInput,     \* the byte sequence
  oSize,      \* output_size passed by the caller
  oRes,       \* "none" or [ret, out, nul] of encode_base64
  \* --- esp_cam_json builder driven call by call ---------------------------
  jState,     \* esp_cam_json_state_t
  jBuf,       \* the len characters written to buf so far
  jMax,       \* max_len, the capacity the caller passes on every call
  jStack,     \* history: the containers opened and not yet closed, innermost
              \* last, each [kind, items] (items: something was written in it)
  jAfterKey,  \* history: the last successful call was esp_cam_json_key
  jAllOk,     \* history: every call so far returned ESP_OK
  jNested,    \* history: so far only start/end calls, each end matching the
              \* innermost open container, all successful
  jLast,      \* the last call: what it was, what held before it, its result
  jStops,     \* the caller makes no further call once a call has failed
  \* --- esp_cam_json_string called once on an ample buffer -----------------
  eValue,     \* the value argument
  eRes,       \* [done |-> FALSE] or the [ret, state, buf] of the call
  \* --- gemini_client_extract_text -----------------------------------------
  xResponse,  \* the response text (a NUL-terminated string)
  xRes,       \* [done |-> FALSE] or the outcome of the call
  \* --- ESP_CAM_CaptureAndGetGeminiPayload ---------------------------------
  pPrompt,    \* the prompt argument
  pImage,     \* the bytes of the frame the camera delivers (fb->buf, fb->len)
  pRes,       \* the outcome of the call, [done |-> FALSE] before it
  \* --- encodeDirectlyToGeminiJson / captureImageAsGeminiJson --------------
  dPrompt,    \* the prompt argument
  dImage,     \* the bytes of the frame (fb->buf, fb->len)
  dRes,       \* the outcome of the call, [done |-> FALSE] before it
  \* --- ESP_CAM_CaptureAndAnalyze, statement by statement ------------------
  aPc,        \* the statement the call is at
  aDoc,       \* the response text the server sends
  aBlocks,    \* heap blocks payload, response, text: "none", "live", "freed"
  aFrees,     \* how many times free() was called on each block
  aBad,       \* a block was read or freed while not live
  aRet,       \* what the call returned: NULL or a pointer into a block
  \* --- one gemini_client handle, call by call -----------------------------
  kClient,    \* the struct gemini_client and the calls made on its
              \* http_client: [request_started, last_error, opens, writes,
              \* performs]
  kArmed,     \* history: a start_request returned ESP_OK and no
              \* finish_request has returned ESP_OK since
  kLast,      \* the last call and the one before it: what it was, the
              \* client before it, what it returned
  \* --- custom_cam_take_picture, call by call -----------------------------
  tLed,       \* the level of FLASH_GPIO_PIN
  tHeld,      \* frames the driver handed out and has not got back
  tShots,     \* calls of custom_cam_take_picture made
  tLast,      \* the last call: its arguments, the frame the driver gave,
              \* the levels written to the LED, what it returned
  \* --- one ESP_CAM_SendGeminiRequest call, statement by statement --------
  nPc,        \* the statement the call is at
  nMem,       \* heap blocks model, client, error_buf, buffer, message:
              \* [st, allocs, frees]
  nBuf,       \* the response buffer of gemini_client_finish_request:
              \* [total_len, chunk_count, size, reach, nul]
  nOut        \* the caller's response and response_len, the value
              \* finish_request returned, the value the call returned

streamVars == <<sInput, sPos, sState, sOut, sCalls, sWhole>>
chunkVars  == <<cInput, cPos, cState, cOut, cCalls, cFin, cLast>>
oneVars    == <<oInput, oSize, oRes>>
jsonVars   == <<jState, jBuf, jMax, jStack, jAfterKey, jAllOk, jNested, jLast, jStops>>
payVars    == <<pPrompt, pImage, pRes>>
strVars    == <<eValue, eRes>>
extVars    == <<xResponse, xRes>>
directVars == <<dPrompt, dImage, dRes>>
analyzeVars == <<aPc, aDoc, aBlocks, aFrees, aBad, aRet>>
clientVars == <<kClient, kArmed, kLast>>
shotVars   == <<tLed, tHeld, tShots, tLast>>
sendVars   == <<nPc, nMem, nBuf, nOut>>

(***************************************************************************)
(* Bounds of the model.                                                    *)
(***************************************************************************)
MaxLen == 4          \* longest byte sequence fed to an encoder

MaxBuf == 10         \* max_len of the buffer the JSON builder is driven on

MaxGarbage == 2      \* most uninitialised bytes strlen runs over before a NUL

ByteVals == {0, 77, 255}

Inputs == UNION {[1..n -> ByteVals] : n \in 0..MaxLen}

(***************************************************************************)
(* Fixed-width arithmetic of the C code.                                   *)
(***************************************************************************)
Pow2(n) == 2^n

Shr(x, n) == x \div Pow2(n)

\* x << n in a uint32_t: the bits shifted beyond bit 31 are dropped first.
Shl32(x, n) == (x % Pow2(32 - n)) * Pow2(n)

U8(x) == x % 256

\* base64_chars / base64_table: the 64-character alphabet.
base64_chars ==
  << "A","B","C","D","E","F","G","H","I","J","K","L","M","N","O","P",
     "Q","R","S","T","U","V","W","X","Y","Z","a","b","c","d","e","f",
     "g","h","i","j","k","l","m","n","o","p","q","r","s","t","u","v",
     "w","x","y","z","0","1","2","3","4","5","6","7","8","9","+","/" >>

\* base64_chars[(v >> s) & 0x3F]
Sextet(v, s) == base64_chars[(Shr(v, s) % 64) + 1]

\* The four characters of a complete 24-bit group.
Quad(v) == << Sextet(v, 18), Sextet(v, 12), Sextet(v, 6), Sextet(v, 0) >>

(***************************************************************************)
(* esp_cam_base64_encode_len                                               *)
(***************************************************************************)
esp_cam_base64_encode_len(input_len) == (((input_len + 2) \div 3) * 4) + 1

(***************************************************************************)
(* esp_cam_base64_encode_stream                                            *)
(***************************************************************************)
\* "Process leftover bytes from previous call first": the first while loop.
\* i counts the input bytes consumed; r = [i, leftover, bits, out].
RECURSIVE ResumeLoop(_, _)
ResumeLoop(input, r) ==
  IF r.leftover > 0 /\ r.i < Len(input)
    THEN LET bits     == Shl32(r.bits, 8) + input[r.i + 1]
             leftover == r.leftover - 1
         IN  ResumeLoop(input,
               IF leftover = 0
                 THEN [i |-> r.i + 1, leftover |-> 0, bits |-> 0,
                       out |-> r.out \o Quad(bits)]
                 ELSE [i |-> r.i + 1, leftover |-> leftover, bits |-> bits,
                       out |-> r.out])
    ELSE r

\* "Main encoding loop - process input in groups of 3 bytes".
RECURSIVE MainLoop(_, _)
MainLoop(input, r) ==
  IF r.i + 3 <= Len(input)
    THEN LET val == input[r.i + 1] * 65536 + input[r.i + 2] * 256 + input[r.i + 3]
         IN  MainLoop(input, [r EXCEPT !.i = r.i + 3, !.out = r.out \o Quad(val)])
    ELSE r

\* "Collect remaining bytes": bits = (bits << 8) | input[i++] from i to the end.
RECURSIVE CollectBits(_, _, _)
CollectBits(input, i, bits) ==
  IF i < Len(input)
    THEN CollectBits(input, i + 1, Shl32(bits, 8) + input[i + 1])
    ELSE bits

\* The state byte written back: (leftover & 0x03) | ((bits & 0x3FFFF) << 2),
\* stored into a uint8_t.
SaveStreamState(leftover, bits) ==
  IF leftover > 0
    THEN U8((leftover % 4) + ((bits % Pow2(18)) * 4))
    ELSE 0

\* "Handle remaining 1 or 2 bytes": the partial group written at the end of a call.
StreamTail(input, r) ==
  LET leftover == Len(input) - r.i
      bits     == Shl32(CollectBits(input, r.i, 0), 8 * (3 - leftover))
      tail     == IF leftover = 0 THEN << >>
                  ELSE << Sextet(bits, 18), Sextet(bits, 12) >>
                       \o (IF leftover = 2 THEN << Sextet(bits, 6) >> ELSE << >>)
  IN  [out   |-> r.out \o tail,
       state |-> SaveStreamState(leftover, IF leftover = 0 THEN r.bits ELSE bits),
       nul   |-> (leftover = 0)]

\* The whole function for non-null arguments: [out, state, nul], where out is
\* the o characters written (output_len), state the new state byte and nul
\* tells whether output[o] = '\0' was written.
esp_cam_base64_encode_stream(input, state) ==
  LET r0 == [i |-> 0, leftover |-> state % 4,
             bits |-> Shr(state, 2) % Pow2(18), out |-> << >>]
  IN  StreamTail(input, MainLoop(input, ResumeLoop(input, r0)))

\* esp_cam_base64_encode: one call with a local state byte 0.
esp_cam_base64_encode(input) == esp_cam_base64_encode_stream(input, 0)

(***************************************************************************)
(* jpeg_encoder.c: calculate_base64_length, encode_base64,                 *)
(* encode_base64_chunk, encode_base64_finalize                             *)
(***************************************************************************)
\* The length with the division rounded down.
calculate_base64_length_floor(input_length) == (input_length \div 3) * 4 + 1

\* size_t output_length = (input_length + 2) / 3 * 4; return output_length + 1;
calculate_base64_length(input_length) == ((input_length + 2) \div 3) * 4 + 1

\* input[i] when i (0-based) is inside the input, else 0: the a, b, c of the loop.
ByteOrZero(input, i) == IF i < Len(input) THEN input[i + 1] ELSE 0

\* "Pack into 24-bit integer": (a << 16) | (b << 8) | c
PackSwapped(a, b, c) == a * 65536 + c * 256 + b

Pack(a, b, c) == a * 65536 + b * 256 + c

\* The four characters written for the group that starts at input index i.
OneShotGroup(input, i) ==
  LET triple == Pack(ByteOrZero(input, i), ByteOrZero(input, i + 1),
                     ByteOrZero(input, i + 2))
  IN  << Sextet(triple, 18),
         Sextet(triple, 12),
         IF i + 1 < Len(input) THEN Sextet(triple, 6) ELSE "=",
         IF i + 2 < Len(input) THEN Sextet(triple, 0) ELSE "=" >>

\* for (i = 0, j = 0; i < input_length; i += 3, j += 4)
RECURSIVE OneShotLoop(_, _, _)
OneShotLoop(input, i, out) ==
  IF i < Len(input)
    THEN OneShotLoop(input, i + 3, out \o OneShotGroup(input, i))
    ELSE out

\* encode_base64 with a size check that leaves out the terminator.
encode_base64_lenient(input, output_size) ==
  IF Len(input) = 0 \/ output_size < calculate_base64_length(Len(input)) - 1
    THEN [ret |-> 0, out |-> << >>, nul |-> FALSE]
    ELSE LET out == OneShotLoop(input, 0, << >>)
         IN  [ret |-> Len(out), out |-> out, nul |-> TRUE]

\* encode_base64 for non-null pointers: [ret, out, nul]. ret is the returned
\* size, out the characters written, nul whether output[j] = '\0' was written.
encode_base64(input, output_size) ==
  IF Len(input) = 0 \/ output_size < calculate_base64_length(Len(input))
    THEN [ret |-> 0, out |-> << >>, nul |-> FALSE]
    ELSE LET out == OneShotLoop(input, 0, << >>)
         IN  [ret |-> Len(out), out |-> out, nul |-> TRUE]

\* The uint32_t bit buffer of base64_state_t, kept as two 16-bit halves
\* (value = hi * 65536 + lo) so that all 32 bits are represented.
U32Zero == [hi |-> 0, lo |-> 0]

\* (buffer << 8) | byte in a uint32_t
U32Shl8Or(b, byte) ==
  [hi |-> (b.hi % 256) * 256 + (b.lo \div 256),
   lo |-> (b.lo % 256) * 256 + byte]

\* Bit k (0..31) of the buffer.
U32Bit(b, k) ==
  IF k < 16 THEN (b.lo \div Pow2(k)) % 2 ELSE (b.hi \div Pow2(k - 16)) % 2

\* (buffer >> s) & 0x3F for a shift count s in 0..31
U32Sextet(b, s) ==
  LET bit(t) == IF s + t < 32 THEN U32Bit(b, s + t) ELSE 0
  IN  bit(0) + 2 * bit(1) + 4 * bit(2) + 8 * bit(3) + 16 * bit(4) + 32 * bit(5)

\* A zeroed base64_state_t.
ZeroState == [buffer |-> U32Zero, buffer_size |-> 0, total_bytes |-> 0]

\* uint8_t index = (buffer >> (buffer_size - 6)) & 0x3F. A shift count of
\* 32 or more is undefined for a uint32_t: ub is the sextet the build
\* yields then.
GroupIndex(buffer, buffer_size, ub) ==
  IF buffer_size - 6 < 32 THEN U32Sextet(buffer, buffer_size - 6) ELSE ub

\* The inner loop as an if: at most one group per input byte.
EmitOneGroup(r, output_size, ub) ==
  IF r.buffer_size >= 6 /\ Len(r.out) < output_size
    THEN [r EXCEPT
            !.out = r.out \o
              << base64_chars[GroupIndex(r.buffer, r.buffer_size, ub) + 1] >>,
            !.buffer_size = r.buffer_size - 6]
    ELSE r

\* "Process complete 6-bit groups": the inner while loop.
\* r = [buffer, buffer_size, out].
RECURSIVE EmitGroups(_, _, _)
EmitGroups(r, output_size, ub) ==
  IF r.buffer_size >= 6 /\ Len(r.out) < output_size
    THEN EmitGroups([r EXCEPT
                       !.out = r.out \o
                         << base64_chars[GroupIndex(r.buffer, r.buffer_size, ub) + 1] >>,
                       !.buffer_size = r.buffer_size - 6],
                    output_size, ub)
    ELSE r

\* "Process each byte from input": the outer while loop from index i.
RECURSIVE ChunkLoop(_, _, _, _, _)
ChunkLoop(input, i, r, output_size, ub) ==
  IF i < Len(input)
    THEN ChunkLoop(input, i + 1,
                   EmitGroups([r EXCEPT
                                 !.buffer = U32Shl8Or(r.buffer, input[i + 1]),
                                 !.buffer_size = U8(r.buffer_size + 8)],
                              output_size, ub),
                   output_size, ub)
    ELSE r

\* "Update state": what the call stores back into *state.
ChunkSaveLosingBits(state, r) ==
  [state EXCEPT !.buffer = r.buffer, !.buffer_size = 0]

ChunkSave(state, r) ==
  [state EXCEPT !.buffer = r.buffer, !.buffer_size = r.buffer_size]

\* The sextets an undefined shift may yield: any, when the call can make
\* one. Groups are taken out as soon as a byte brings buffer_size to 6, so
\* only the buffer_size a call starts from can take the count to 32.
ChunkUb(state) ==
  IF U8(state.buffer_size + 8) - 6 >= 32 THEN 0..63 ELSE {0}

\* encode_base64_chunk for non-null pointers: [ret, out, state].
encode_base64_chunk(input, output_size, state, ub) ==
  IF Len(input) = 0
    THEN [ret |-> 0, out |-> << >>, state |-> state]
    ELSE LET r == ChunkLoop(input, 0,
                            [buffer |-> state.buffer,
                             buffer_size |-> state.buffer_size,
                             out |-> << >>],
                            output_size, ub)
         IN  [ret |-> Len(r.out), out |-> r.out, state |-> ChunkSave(state, r)]

\* The sextets buffer <<= (6 - buffer_size) may leave in the low six bits:
\* with buffer_size above 6 the shift count is negative, which is
\* undefined, and any sextet may result.
FinalizeUb(state) ==
  IF state.buffer_size > 6 THEN 0..63 ELSE {0}

\* buffer <<= (6 - buffer_size); uint8_t index = buffer & 0x3F
ShiftedIndex(state, ub) ==
  IF state.buffer_size <= 6
    THEN (state.buffer.lo * Pow2(6 - state.buffer_size)) % 64
    ELSE ub

\* "Process any remaining bits" without the test of j against output_size.
FinalizeBitsUnguarded(state, output_size, ub) ==
  IF state.buffer_size > 0
    THEN << base64_chars[ShiftedIndex(state, ub) + 1] >>
    ELSE << >>

\* "Process any remaining bits"
FinalizeBits(state, output_size, ub) ==
  IF state.buffer_size > 0 /\ 0 < output_size
    THEN << base64_chars[ShiftedIndex(state, ub) + 1] >>
    ELSE << >>

\* int padding = (3 - ((state->total_bytes) % 3)) % 3
FinalizePadding(state) == (3 - (state.total_bytes % 3)) % 3

\* for (int i = 0; i < padding && j < output_size; i++) output[j++] = '='
RECURSIVE PadLoop(_, _, _, _)
PadLoop(i, padding, out, output_size) ==
  IF i < padding /\ Len(out) < output_size
    THEN PadLoop(i + 1, padding, out \o << "=" >>, output_size)
    ELSE out

\* encode_base64_finalize without the "Reset state" assignments.
encode_base64_finalize_no_reset(output_size, state, ub) ==
  LET out == PadLoop(0, FinalizePadding(state),
                     FinalizeBits(state, output_size, ub), output_size)
  IN  [ret   |-> Len(out),
       out   |-> out,
       nul   |-> (Len(out) < output_size),
       state |-> state]

\* encode_base64_finalize for non-null pointers: [ret, out, nul, state].
encode_base64_finalize(output_size, state, ub) ==
  LET out == PadLoop(0, FinalizePadding(state),
                     FinalizeBits(state, output_size, ub), output_size)
  IN  [ret   |-> Len(out),
       out   |-> out,
       nul   |-> (Len(out) < output_size),
       state |-> [state EXCEPT !.buffer = U32Zero, !.buffer_size = 0]]

(***************************************************************************)
(* Reference base64 (RFC 4648), the oracle the encoders are compared with. *)
(***************************************************************************)
CeilDiv3(n) == (n + 2) \div 3

RECURSIVE StdBase64(_)
StdBase64(x) ==
  IF Len(x) = 0 THEN << >>
  ELSE IF Len(x) = 1
    THEN << base64_chars[(x[1] \div 4) + 1],
            base64_chars[((x[1] % 4) * 16) + 1], "=", "=" >>
  ELSE IF Len(x) = 2
    THEN << base64_chars[(x[1] \div 4) + 1],
            base64_chars[((x[1] % 4) * 16 + (x[2] \div 16)) + 1],
            base64_chars[((x[2] % 16) * 4) + 1], "=" >>
  ELSE << base64_chars[(x[1] \div 4) + 1],
          base64_chars[((x[1] % 4) * 16 + (x[2] \div 16)) + 1],
          base64_chars[((x[2] % 16) * 4 + (x[3] \div 64)) + 1],
          base64_chars[(x[3] % 64) + 1] >>
       \o StdBase64(SubSeq(x, 4, Len(x)))

IsB64Char(c) == \E i \in 1..64 : base64_chars[i] = c

B64Index(c) == (CHOOSE i \in 1..64 : base64_chars[i] = c) - 1

\* Reference decoder: [ok, bytes]. Rejects lengths that are no multiple of 4,
\* characters outside the alphabet and padding anywhere but the end of the
\* last group.
RECURSIVE StdDecode(_)
StdDecode(s) ==
  IF Len(s) = 0 THEN [ok |-> TRUE, bytes |-> << >>]
  ELSE IF Len(s) < 4 \/ ~IsB64Char(s[1]) \/ ~IsB64Char(s[2])
    THEN [ok |-> FALSE, bytes |-> << >>]
  ELSE LET a == B64Index(s[1])
           b == B64Index(s[2])
           b1 == a * 4 + (b \div 16)
       IN  IF s[3] = "=" /\ s[4] = "=" /\ Len(s) = 4
             THEN [ok |-> TRUE, bytes |-> << b1 >>]
           ELSE IF ~IsB64Char(s[3]) THEN [ok |-> FALSE, bytes |-> << >>]
           ELSE LET c == B64Index(s[3])
                    b2 == (b % 16) * 16 + (c \div 4)
                IN  IF s[4] = "=" /\ Len(s) = 4
                      THEN [ok |-> TRUE, bytes |-> << b1, b2 >>]
                    ELSE IF ~IsB64Char(s[4]) THEN [ok |-> FALSE, bytes |-> << >>]
                    ELSE LET d    == B64Index(s[4])
                             rest == StdDecode(SubSeq(s, 5, Len(s)))
                         IN  [ok |-> rest.ok,
                              bytes |-> << b1, b2, (c % 4) * 64 + d >> \o rest.bytes]

(***************************************************************************)
(* esp_cam_json.c: the incremental JSON builder.                           *)
(* A builder state is [depth, in_object, in_array, needs_separator]; the   *)
(* buffer buf holds the len characters written so far (buf[len] is the     *)
(* terminator). Every operation returns [ret, state, buf].                 *)
(***************************************************************************)
ESP_OK == "ESP_OK"

ESP_ERR_NO_MEM == "ESP_ERR_NO_MEM"

ESP_ERR_INVALID_STATE == "ESP_ERR_INVALID_STATE"

\* write_to_buffer failing only when the text and its terminator end past
\* max_len.
write_to_buffer_late(buf, max_len, str) ==
  IF Len(buf) + Len(str) > max_len
    THEN [ret |-> ESP_ERR_NO_MEM, buf |-> buf]
    ELSE [ret |-> ESP_OK, buf |-> buf \o str]

\* static esp_err_t write_to_buffer(buf, len, max_len, str): [ret, buf].
\* strcpy stores str and its terminator at buf[len .. len + strlen(str)].
write_to_buffer(buf, max_len, str) ==
  IF Len(buf) + Len(str) >= max_len
    THEN [ret |-> ESP_ERR_NO_MEM, buf |-> buf]
    ELSE [ret |-> ESP_OK, buf |-> buf \o str]

\* esp_cam_json_init
esp_cam_json_init ==
  [depth |-> 0, in_object |-> FALSE, in_array |-> FALSE, needs_separator |-> FALSE]

\* if (state->needs_separator) { ret = write_to_buffer(buf, len, max_len, ","); ... }
WriteSeparator(state, buf, max_len) ==
  IF state.needs_separator
    THEN write_to_buffer(buf, max_len, << "," >>)
    ELSE [ret |-> ESP_OK, buf |-> buf]

\* An early return that comes after state->needs_separator = true.
FailedAfterAssignment(ret, state, buf) ==
  [ret |-> ret, state |-> [state EXCEPT !.needs_separator = TRUE], buf |-> buf]

\* An early "if (ret != ESP_OK) return ret;": the state is as before the call.
Failed(ret, state, buf) == [ret |-> ret, state |-> state, buf |-> buf]

\* The state assignments of esp_cam_json_start_object.
EnterObject(state) ==
  [state EXCEPT !.depth = state.depth + 1, !.in_object = TRUE,
                !.in_array = FALSE, !.needs_separator = FALSE]

esp_cam_json_start_object(state, buf, max_len) ==
  LET w1 == WriteSeparator(state, buf, max_len)
      w2 == write_to_buffer(w1.buf, max_len, << "{" >>)
  IN  IF w1.ret # ESP_OK THEN Failed(w1.ret, state, w1.buf)
      ELSE IF w2.ret # ESP_OK THEN Failed(w2.ret, state, w2.buf)
      ELSE [ret |-> ESP_OK, state |-> EnterObject(state), buf |-> w2.buf]

\* "Update state based on parent container" of esp_cam_json_end_object,
\* after state->depth--.
LeaveObjectNoSeparator(state) ==
  IF state.depth - 1 > 0
    THEN [state EXCEPT !.depth = state.depth - 1]
    ELSE [state EXCEPT !.depth = state.depth - 1, !.in_object = FALSE,
                       !.needs_separator = FALSE]

LeaveObject(state) ==
  IF state.depth - 1 > 0
    THEN [state EXCEPT !.depth = state.depth - 1, !.needs_separator = TRUE]
    ELSE [state EXCEPT !.depth = state.depth - 1, !.in_object = FALSE,
                       !.needs_separator = FALSE]

esp_cam_json_end_object(state, buf, max_len) ==
  IF state.depth = 0 \/ ~state.in_object
    THEN Failed(ESP_ERR_INVALID_STATE, state, buf)
    ELSE LET w == write_to_buffer(buf, max_len, << "}" >>)
         IN  IF w.ret # ESP_OK THEN Failed(w.ret, state, w.buf)
             ELSE [ret |-> ESP_OK, state |-> LeaveObject(state), buf |-> w.buf]

\* The state assignments of esp_cam_json_start_array without
\* state->in_object = false.
EnterArrayKeepsObject(state) ==
  [state EXCEPT !.depth = state.depth + 1, !.in_array = TRUE,
                !.needs_separator = FALSE]

\* The state assignments of esp_cam_json_start_array.
EnterArray(state) ==
  [state EXCEPT !.depth = state.depth + 1, !.in_array = TRUE,
                !.in_object = FALSE, !.needs_separator = FALSE]

esp_cam_json_start_array(state, buf, max_len) ==
  LET w1 == WriteSeparator(state, buf, max_len)
      w2 == write_to_buffer(w1.buf, max_len, << "[" >>)
  IN  IF w1.ret # ESP_OK THEN Failed(w1.ret, state, w1.buf)
      ELSE IF w2.ret # ESP_OK THEN Failed(w2.ret, state, w2.buf)
      ELSE [ret |-> ESP_OK, state |-> EnterArray(state), buf |-> w2.buf]

\* "Update state based on parent container" of esp_cam_json_end_array.
LeaveArray(state) ==
  IF state.depth - 1 > 0
    THEN [state EXCEPT !.depth = state.depth - 1, !.needs_separator = TRUE]
    ELSE [state EXCEPT !.depth = state.depth - 1, !.in_array = FALSE,
                       !.needs_separator = FALSE]

esp_cam_json_end_array(state, buf, max_len) ==
  IF state.depth = 0 \/ ~state.in_array
    THEN Failed(ESP_ERR_INVALID_STATE, state, buf)
    ELSE LET w == write_to_buffer(buf, max_len, << "]" >>)
         IN  IF w.ret # ESP_OK THEN Failed(w.ret, state, w.buf)
             ELSE [ret |-> ESP_OK, state |-> LeaveArray(state), buf |-> w.buf]

esp_cam_json_key(state, buf, max_len, key) ==
  IF ~state.in_object
    THEN Failed(ESP_ERR_INVALID_STATE, state, buf)
    ELSE LET w1 == WriteSeparator(state, buf, max_len)
             w2 == write_to_buffer(w1.buf, max_len, << "\"" >>)
             w3 == write_to_buffer(w2.buf, max_len, key)
             w4 == write_to_buffer(w3.buf, max_len, << "\"", ":" >>)
         IN  IF w1.ret # ESP_OK THEN Failed(w1.ret, state, w1.buf)
             ELSE IF w2.ret # ESP_OK THEN Failed(w2.ret, state, w2.buf)
             ELSE IF w3.ret # ESP_OK THEN Failed(w3.ret, state, w3.buf)
             ELSE IF w4.ret # ESP_OK THEN Failed(w4.ret, state, w4.buf)
             ELSE [ret |-> ESP_OK,
                   state |-> [state EXCEPT !.needs_separator = FALSE],
                   buf |-> w4.buf]

\* Control characters of the model's alphabet and their codes; every other
\* character of the alphabet is printable ASCII (code >= 32).
ControlCode(c) ==
  CASE c = "<BEL>" -> 7
    [] c = "<BS>"  -> 8
    [] c = "\t"    -> 9
    [] c = "\n"    -> 10
    [] c = "<FF>"  -> 12
    [] c = "\r"    -> 13
    [] c = "<US>"  -> 31

IsControl(c) == c \in {"<BEL>", "<BS>", "\t", "\n", "<FF>", "\r", "<US>"}

HexDigits == << "0","1","2","3","4","5","6","7","8","9","a","b","c","d","e","f" >>

\* The escape with the code printed in decimal, as "%04d" would.
UnicodeEscapeDecimal(code) ==
  << "\\", "u", "0", "0", HexDigits[((code \div 10) % 10) + 1],
     HexDigits[(code % 10) + 1] >>

\* sprintf(escape, "\\u%04x", c)
UnicodeEscape(code) ==
  << "\\", "u", HexDigits[((code \div 4096) % 16) + 1],
     HexDigits[((code \div 256) % 16) + 1],
     HexDigits[((code \div 16) % 16) + 1], HexDigits[(code % 16) + 1] >>

\* The switch of esp_cam_json_string: the escape of a character below 32.
ControlEscape(c) ==
  CASE c = "<BS>" -> << "\\", "b" >>
    [] c = "<FF>" -> << "\\", "f" >>
    [] c = "\n"   -> << "\\", "n" >>
    [] c = "\r"   -> << "\\", "r" >>
    [] c = "\t"   -> << "\\", "t" >>
    [] OTHER      -> UnicodeEscape(ControlCode(c))

\* One iteration of the escaping loop on character c: [ret, buf].
StringChar(buf, max_len, c) ==
  IF c = "\"" \/ c = "\\"
    THEN IF Len(buf) + 2 >= max_len
           THEN [ret |-> ESP_ERR_NO_MEM, buf |-> buf]
           ELSE [ret |-> ESP_OK, buf |-> buf \o << "\\", c >>]
  ELSE IF IsControl(c)
    THEN write_to_buffer(buf, max_len, ControlEscape(c))
  ELSE IF Len(buf) + 1 >= max_len
    THEN [ret |-> ESP_ERR_NO_MEM, buf |-> buf]
    ELSE [ret |-> ESP_OK, buf |-> buf \o << c >>]

\* The iterations i = lo .. hi - 1 of the escaping loop, in order, stopping
\* at the first that fails: [ret, buf]. (The range is halved rather than
\* walked one by one, to keep the evaluation shallow on long values.)
RECURSIVE StringRange(_, _, _, _, _)
StringRange(buf, max_len, value, lo, hi) ==
  IF lo >= hi THEN [ret |-> ESP_OK, buf |-> buf]
  ELSE IF hi = lo + 1 THEN StringChar(buf, max_len, value[lo + 1])
  ELSE LET mid == (lo + hi) \div 2
           w == StringRange(buf, max_len, value, lo, mid)
       IN  IF w.ret # ESP_OK THEN w
           ELSE StringRange(w.buf, max_len, value, mid, hi)

\* for (size_t i = 0; i < strlen(value); i++) from index i: [ret, buf].
StringLoop(buf, max_len, value, i) ==
  StringRange(buf, max_len, value, i, Len(value))

\* What a value operation does to the state on success.
ValueDone(state) == [state EXCEPT !.needs_separator = TRUE]

esp_cam_json_string(state, buf, max_len, value) ==
  LET w1 == WriteSeparator(state, buf, max_len)
      w2 == write_to_buffer(w1.buf, max_len, << "\"" >>)
      w3 == StringLoop(w2.buf, max_len, value, 0)
      w4 == write_to_buffer(w3.buf, max_len, << "\"" >>)
  IN  IF w1.ret # ESP_OK THEN Failed(w1.ret, state, w1.buf)
      ELSE IF w2.ret # ESP_OK THEN Failed(w2.ret, state, w2.buf)
      ELSE IF w3.ret # ESP_OK THEN Failed(w3.ret, state, w3.buf)
      ELSE IF w4.ret # ESP_OK THEN Failed(w4.ret, state, w4.buf)
      ELSE [ret |-> ESP_OK, state |-> ValueDone(state), buf |-> w4.buf]

\* esp_cam_json_number, and the body shared by esp_cam_json_bool and
\* esp_cam_json_null: separator, then the literal text verbatim.
esp_cam_json_number(state, buf, max_len, value) ==
  LET w1 == WriteSeparator(state, buf, max_len)
      w2 == write_to_buffer(w1.buf, max_len, value)
  IN  IF w1.ret # ESP_OK THEN Failed(w1.ret, state, w1.buf)
      ELSE IF w2.ret # ESP_OK THEN Failed(w2.ret, state, w2.buf)
      ELSE [ret |-> ESP_OK, state |-> ValueDone(state), buf |-> w2.buf]

esp_cam_json_bool(state, buf, max_len, value) ==
  esp_cam_json_number(state, buf, max_len,
    IF value THEN << "t", "r", "u", "e" >> ELSE << "f", "a", "l", "s", "e" >>)

esp_cam_json_null(state, buf, max_len) ==
  esp_cam_json_number(state, buf, max_len, << "n", "u", "l", "l" >>)

esp_cam_json_key_string(state, buf, max_len, key, value) ==
  LET k == esp_cam_json_key(state, buf, max_len, key)
  IN  IF k.ret # ESP_OK THEN k
      ELSE esp_cam_json_string(k.state, k.buf, max_len, value)

esp_cam_json_key_number(state, buf, max_len, key, value) ==
  LET k == esp_cam_json_key(state, buf, max_len, key)
  IN  IF k.ret # ESP_OK THEN k
      ELSE esp_cam_json_number(k.state, k.buf, max_len, value)

(***************************************************************************)
(* esp_cam_utils.c: ESP_CAM_CaptureAndGetGeminiPayload.                    *)
(***************************************************************************)
\* The string literals of the function.
K_contents == << "c", "o", "n", "t", "e", "n", "t", "s" >>

K_parts == << "p", "a", "r", "t", "s" >>

K_text == << "t", "e", "x", "t" >>

K_inline_data == << "i", "n", "l", "i", "n", "e", "_", "d", "a", "t", "a" >>

K_mime_type == << "m", "i", "m", "e", "_", "t", "y", "p", "e" >>

V_image_jpeg == << "i", "m", "a", "g", "e", "/", "j", "p", "e", "g" >>

K_data == << "d", "a", "t", "a" >>

K_generationConfig == << "g", "e", "n", "e", "r", "a", "t", "i", "o", "n", "C", "o", "n", "f", "i", "g" >>

K_maxOutputTokens == << "m", "a", "x", "O", "u", "t", "p", "u", "t", "T", "o", "k", "e", "n", "s" >>

V_100 == << "1", "0", "0" >>

\* "200 bytes for JSON structure"
StructureBytes == 200

\* json_size = base64_len + strlen(prompt) + 200
JsonSize(prompt, image) ==
  esp_cam_base64_encode_len(Len(image)) + Len(prompt) + StructureBytes

\* One builder call of the function. The function ignores the value the call
\* returns; b = [state, buf, rets] collects them in rets.
Op(f) == [f |-> f, key |-> << >>, value |-> << >>]

OpK(f, key) == [f |-> f, key |-> key, value |-> << >>]

OpKV(f, key, value) == [f |-> f, key |-> key, value |-> value]

BuilderCall(b, max_len, op) ==
  LET r == CASE op.f = "start_object" ->
                  esp_cam_json_start_object(b.state, b.buf, max_len)
             [] op.f = "end_object" ->
                  esp_cam_json_end_object(b.state, b.buf, max_len)
             [] op.f = "start_array" ->
                  esp_cam_json_start_array(b.state, b.buf, max_len)
             [] op.f = "end_array" ->
                  esp_cam_json_end_array(b.state, b.buf, max_len)
             [] op.f = "key" ->
                  esp_cam_json_key(b.state, b.buf, max_len, op.key)
             [] op.f = "key_string" ->
                  esp_cam_json_key_string(b.state, b.buf, max_len, op.key, op.value)
             [] op.f = "key_number" ->
                  esp_cam_json_key_number(b.state, b.buf, max_len, op.key, op.value)
  IN  [state |-> r.state, buf |-> r.buf, rets |-> Append(b.rets, r.ret)]

RECURSIVE BuilderCalls(_, _, _)
BuilderCalls(b, max_len, ops) ==
  IF ops = << >> THEN b
  ELSE BuilderCalls(BuilderCall(b, max_len, Head(ops)), max_len, Tail(ops))

\* The calls from "Start building JSON" to "Add data key".
CallsBeforeData(prompt) ==
  << Op("start_object"),
     OpK("key", K_contents), Op("start_array"),
     Op("start_object"),
     OpK("key", K_parts), Op("start_array"),
     Op("start_object"), OpKV("key_string", K_text, prompt), Op("end_object"),
     Op("start_object"),
     OpK("key", K_inline_data), Op("start_object"),
     OpKV("key_string", K_mime_type, V_image_jpeg),
     OpK("key", K_data) >>

\* The calls of "Complete the JSON structure" and "Add generation config".
CallsAfterData ==
  << Op("end_object"), Op("end_object"),
     Op("end_array"), Op("end_object"),
     Op("end_array"),
     OpK("key", K_generationConfig), Op("start_object"),
     OpKV("key_number", K_maxOutputTokens, V_100), Op("end_object"),
     Op("end_object") >>

\* An uninitialised byte of the malloc'ed buffer that is not NUL.
Garbage == "<?>"

RECURSIVE GarbageRun(_)
GarbageRun(n) == IF n = 0 THEN << >> ELSE << Garbage >> \o GarbageRun(n - 1)

\* The outcome of the call once the frame was captured and the buffer
\* allocated. When the encoder wrote no terminator, strlen(base64_output)
\* reads uninitialised memory: nul_found tells whether it meets a NUL inside
\* the buffer, and garbage how many non-NUL bytes it runs over before it.
\* Result: [ret, doc, state, rets, fb_returns, freed, captured, allocated,
\* high].
ReturnedAfterCleanup(ret, b, freed, high) ==
  [done |-> TRUE, ret |-> ret, doc |-> b.buf, state |-> b.state, rets |-> b.rets,
   fb_returns |-> (IF ret = "NULL" THEN 2 ELSE 1), freed |-> freed,
   captured |-> TRUE, allocated |-> TRUE, high |-> high]

Returned(ret, b, freed, high) ==
  [done |-> TRUE, ret |-> ret, doc |-> b.buf, state |-> b.state, rets |-> b.rets,
   fb_returns |-> 1, freed |-> freed, captured |-> TRUE, allocated |-> TRUE,
   high |-> high]

\* The number of leading bytes of json_payload the writes have reached (one
\* more than the highest index written). Every write goes to the bytes
\* that follow the ones written before, so the last write reaches highest:
\* a builder write and the closing quote end with the terminator at
\* buf[len]; the encoder writes its characters, and its terminator if it
\* writes one, from base64_output on, whatever room is left.
BuilderHigh(b) == Len(b.buf) + 1

EncoderHigh(b, enc) == Len(b.buf) + Len(enc.out) + (IF enc.nul THEN 1 ELSE 0)

BuildPayload(prompt, image, nul_found, garbage) ==
  LET json_size == JsonSize(prompt, image)
      b0 == [state |-> esp_cam_json_init, buf |-> << >>, rets |-> << >>]
      b1 == BuilderCalls(b0, json_size, CallsBeforeData(prompt))
      \* json_payload[json_len++] = '"'
      b2 == [b1 EXCEPT !.buf = b1.buf \o << "\"" >>]
      enc == esp_cam_base64_encode(image)
      \* json_len += strlen(base64_output)
      found == enc.nul \/ nul_found
      b3 == [b2 EXCEPT !.buf = b2.buf \o enc.out \o
                                (IF enc.nul \/ ~nul_found THEN << >>
                                 ELSE GarbageRun(garbage))]
      \* json_payload[json_len++] = '"'; json_payload[json_len] = '\0'
      b4 == [b3 EXCEPT !.buf = b3.buf \o << "\"" >>]
      b5 == BuilderCalls(b4, json_size, CallsAfterData)
  IN  IF Len(b1.buf) + 1 >= json_size
        THEN Returned("NULL", b1, TRUE, BuilderHigh(b1))
      ELSE IF ~found \/ Len(b3.buf) + 1 >= json_size
        THEN Returned("NULL", b3, TRUE, EncoderHigh(b2, enc))
      ELSE Returned("payload", b5, FALSE, BuilderHigh(b5))

\* The outcome when esp_cam_base64_encode does not return ESP_OK: it
\* returns ESP_ERR_INVALID_ARG for a frame whose buf is NULL, before it
\* writes anything.
BuildPayloadEncoderFails(prompt, image) ==
  LET json_size == JsonSize(prompt, image)
      b0 == [state |-> esp_cam_json_init, buf |-> << >>, rets |-> << >>]
      \* from the test before the opening quote on, b1 being the builder
      \* after the calls up to the data key
      FromQuote(b1) ==
        IF Len(b1.buf) + 1 >= json_size
          THEN Returned("NULL", b1, TRUE, BuilderHigh(b1))
          \* json_payload[json_len++] = '"'
          ELSE Returned("NULL", [b1 EXCEPT !.buf = Append(@, "\"")], TRUE,
                        Len(b1.buf) + 1)
  IN  CHOOSE r \in { FromQuote(b1) :
                       b1 \in { BuilderCalls(b0, json_size, CallsBeforeData(prompt)) } } :
        TRUE

(***************************************************************************)
(* gemini_client.c: gemini_client_extract_text. The response is the        *)
(* sequence of the characters before its terminator; an index is the       *)
(* 0-based offset into it, and the terminator is read at index Len.        *)
(***************************************************************************)
\* const char *text_marker = "\"text\": \"";
text_marker == << "\"", "t", "e", "x", "t", "\"", ":", " ", "\"" >>

\* strstr ending the match two characters before the end of the needle.
strstr_short(haystack, needle) ==
  LET n == Len(needle) - 2
      hits == {i \in 0..(Len(haystack) - n) :
                 SubSeq(haystack, i + 1, i + n) = SubSeq(needle, 1, n)}
  IN  IF hits = {} THEN -1 ELSE CHOOSE i \in hits : \A k \in hits : i <= k

\* strstr(haystack, needle): the offset of the first occurrence, -1 for NULL.
strstr(haystack, needle) ==
  LET hits == {i \in 0..(Len(haystack) - Len(needle)) :
                 SubSeq(haystack, i + 1, i + Len(needle)) = needle}
  IN  IF hits = {} THEN -1 ELSE CHOOSE i \in hits : \A k \in hits : i <= k

\* The scan stopping at the first quote, escaped or not.
RECURSIVE FindClosingQuoteUnescaped(_, _, _)
FindClosingQuoteUnescaped(response, text_end, in_escape) ==
  IF text_end >= Len(response) THEN text_end
  ELSE IF response[text_end + 1] = "\"" THEN text_end
  ELSE FindClosingQuoteUnescaped(response, text_end + 1, FALSE)

\* while (*text_end) { ... text_end++; } from text_end on: where it stops.
RECURSIVE FindClosingQuote(_, _, _)
FindClosingQuote(response, text_end, in_escape) ==
  IF text_end >= Len(response) THEN text_end
  ELSE IF in_escape THEN FindClosingQuote(response, text_end + 1, FALSE)
  ELSE IF response[text_end + 1] = "\\"
    THEN FindClosingQuote(response, text_end + 1, TRUE)
  ELSE IF response[text_end + 1] = "\"" THEN text_end
  ELSE FindClosingQuote(response, text_end + 1, FALSE)

\* The switch of the copy loop on the character after a backslash.
EscapeSwitch(c) ==
  CASE c = "n" -> "\n"
    [] c = "r" -> "\r"
    [] c = "t" -> "\t"
    [] c = "b" -> "<BS>"
    [] c = "f" -> "<FF>"
    [] OTHER   -> c

\* for (size_t i = 0; i < text_len; i++) from index i: the text written.
RECURSIVE CopyUnescape(_, _, _, _, _, _)
CopyUnescape(response, text_start, text_len, i, in_escape, text) ==
  IF i >= text_len THEN text
  ELSE LET c == response[text_start + i + 1]
       IN  IF in_escape
             THEN CopyUnescape(response, text_start, text_len, i + 1, FALSE,
                               Append(text, EscapeSwitch(c)))
           ELSE IF c = "\\"
             THEN CopyUnescape(response, text_start, text_len, i + 1, TRUE, text)
           ELSE CopyUnescape(response, text_start, text_len, i + 1, FALSE,
                             Append(text, c))

\* The outcome of a call: the pointer returned ("NULL" or "text"), the text
\* it points to, whether malloc was called, the message logged, and the
\* highest index of the response that was read (-1: none).
Extracted(ret, text, malloc_called, log, read_to) ==
  [done |-> TRUE, ret |-> ret, text |-> text, malloc_called |-> malloc_called,
   log |-> log, read_to |-> read_to]

\* gemini_client_extract_text(response, response_len); malloc_ok tells
\* whether malloc(text_len + 1) returns a buffer.
gemini_client_extract_text(response, response_len, malloc_ok) ==
  LET found == strstr(response, text_marker)
      text_start == found + Len(text_marker)
      text_end == FindClosingQuote(response, text_start, FALSE)
      text_len == text_end - text_start
  IN  IF response_len = 0
        THEN Extracted("NULL", << >>, FALSE, "Empty response", -1)
      ELSE IF found = -1
        THEN Extracted("NULL", << >>, FALSE, "Text field not found in response",
                       Len(response))
      ELSE IF text_end >= Len(response)
        THEN Extracted("NULL", << >>, FALSE, "End of text field not found",
                       Len(response))
      ELSE IF ~malloc_ok
        THEN Extracted("NULL", << >>, TRUE, "Failed to allocate memory for text",
                       text_end)
      ELSE Extracted("text",
                     CopyUnescape(response, text_start, text_len, 0, FALSE, << >>),
                     TRUE, "", text_end)

(***************************************************************************)
(* Idle values of each group of variables, used by the specifications that *)
(* do not drive that group.                                                *)
(***************************************************************************)
NotCalled == [done |-> FALSE]

StreamIdle ==
  /\ sInput = << >> /\ sPos = 0 /\ sState = 0 /\ sOut = << >> /\ sCalls = 0
  /\ sWhole = NotCalled

ChunkIdle ==
  /\ cInput = << >> /\ cPos = 0 /\ cState = ZeroState /\ cOut = << >>
  /\ cCalls = 0 /\ cFin = NotCalled /\ cLast = NotCalled

OneIdle == oInput = << >> /\ oSize = 0 /\ oRes = NotCalled

NoCall ==
  [op |-> "none", ret |-> ESP_OK, preTop |-> "none", preItems |-> FALSE,
   preAfterKey |-> FALSE, preDepth |-> 0, preLen |-> 0,
   preState |-> esp_cam_json_init, proper |-> FALSE]

PayIdle == pPrompt = << >> /\ pImage = << >> /\ pRes = NotCalled

JsonIdle ==
  /\ jState = esp_cam_json_init /\ jBuf = << >> /\ jMax = 0 /\ jStack = << >>
  /\ jAfterKey = FALSE /\ jAllOk = TRUE /\ jNested = TRUE /\ jLast = NoCall
  /\ jStops = TRUE

StrIdle == eValue = << >> /\ eRes = NotCalled

ExtIdle == xResponse = << >> /\ xRes = NotCalled

DirectIdle == dPrompt = << >> /\ dImage = << >> /\ dRes = NotCalled

NoBlocks == [b \in {"payload", "response", "text"} |-> "none"]

NoFrees == [b \in {"payload", "response", "text"} |-> 0]

NoReturn == [kind |-> "none", block |-> "none", text |-> << >>]

AnalyzeIdle ==
  /\ aPc = "idle" /\ aDoc = << >> /\ aBlocks = NoBlocks /\ aFrees = NoFrees
  /\ aBad = FALSE /\ aRet = NoReturn

\* The client gemini_client_init returns: request_started = false,
\* last_error = ESP_OK, nothing done on the connection yet.
NewClient ==
  [request_started |-> FALSE, last_error |-> ESP_OK,
   opens |-> 0, writes |-> 0, performs |-> 0]

NoClientCall == [done |-> FALSE, n |-> 0]

ClientIdle == kClient = NewClient /\ kArmed = FALSE /\ kLast = NoClientCall

(***************************************************************************)
(* The heap as ESP_CAM_SendGeminiRequest and the functions it calls use    *)
(* it. A block is "none" until it is allocated, then "live", then "freed". *)
(***************************************************************************)
SendBlocks == {"model", "client", "error_buf", "buffer", "message"}

NoMem == [b \in SendBlocks |-> [st |-> "none", allocs |-> 0, frees |-> 0]]

\* int total_len = 0; int chunk_count = 0; char *buffer = NULL;
\* size is the bytes allocated, reach one more than the highest index a
\* read may write or the terminator was written at, nul the index of the
\* terminator (-1: none written).
NoBuf == [total_len |-> 0, chunk_count |-> 0, size |-> 0, reach |-> 0, nul |-> -1]

\* char *response = NULL; size_t response_len = 0;
NoOut == [response |-> "NULL", response_len |-> 0, err |-> "none",
          api_error |-> FALSE, ret |-> "none"]

SendIdle == nPc = "idle" /\ nMem = NoMem /\ nBuf = NoBuf /\ nOut = NoOut

(***************************************************************************)
(* custom_cam.c: custom_cam_take_picture. A frame is [format, buf];        *)
(* esp_camera_fb_get returning NULL is NoFrame.                            *)
(***************************************************************************)
NoFrame == [format |-> "none", buf |-> << >>]

NoShot == [done |-> FALSE, use_flash |-> FALSE, flash_delay_ms |-> 0,
           fb |-> NoFrame, levels |-> << >>, delay |-> 0, ret |-> "NULL",
           fb_returns |-> 0]

ShotIdle == tLed = 0 /\ tHeld = 0 /\ tShots = 0 /\ tLast = NoShot

\* "Turn on flash if requested": the level written.
FlashOn(use_flash) == IF use_flash THEN << 1 >> ELSE << >>

\* The ticks of milliseconds the call waits with the flash on.
FlashDelay(use_flash, flash_delay_ms) ==
  IF ~use_flash THEN 0
  ELSE IF flash_delay_ms > 0 THEN flash_delay_ms
  ELSE 75

\* The flash switched off after the test of the captured frame.
FlashOffAfterCheck(use_flash, fb) ==
  IF use_flash /\ fb # NoFrame THEN << 0 >> ELSE << >>

\* "Turn off flash immediately after capture": the level written.
FlashOff(use_flash, fb) == IF use_flash THEN << 0 >> ELSE << >>

\* The two validations of a captured frame.
FrameRejected(fb) ==
  \/ fb.format # "PIXFORMAT_JPEG"
  \/ Len(fb.buf) < 2
  \/ fb.buf[1] # 255
  \/ fb.buf[2] # 216

\* The whole call, fb being what esp_camera_fb_get returns:
\* [levels, delay, ret, fb_returns].
custom_cam_take_picture(use_flash, flash_delay_ms, fb) ==
  LET levels == FlashOn(use_flash) \o FlashOff(use_flash, fb)
      delay  == FlashDelay(use_flash, flash_delay_ms)
  IN  IF fb = NoFrame
        THEN [levels |-> levels, delay |-> delay, ret |-> "NULL", fb_returns |-> 0]
      ELSE IF FrameRejected(fb)
        THEN [levels |-> levels, delay |-> delay, ret |-> "NULL", fb_returns |-> 1]
      ELSE [levels |-> levels, delay |-> delay, ret |-> "fb", fb_returns |-> 0]

\* The level the pin has after the writes of a call.
LevelAfter(led, levels) == IF levels = << >> THEN led ELSE levels[Len(levels)]

(***************************************************************************)
(* SpecShot: custom_cam_take_picture is called up to MaxShots times with   *)
(* any arguments and any frame from the driver; between calls the caller   *)
(* may give a frame it holds back with custom_cam_return_fb.               *)
(***************************************************************************)
MaxShots == 2        \* calls of custom_cam_take_picture

MaxShotLen == 2      \* longest frame the driver hands out

ShotBytes == {216, 255}

ShotFrames ==
  [format : {"PIXFORMAT_JPEG", "PIXFORMAT_RGB565"},
   buf : UNION { [1..n -> ShotBytes] : n \in 0..MaxShotLen }]

FlashDelays == {0, 20}

InitShot ==
  /\ tLed = 0 /\ tHeld = 0 /\ tShots = 0 /\ tLast = NoShot
  /\ StreamIdle /\ ChunkIdle /\ OneIdle /\ JsonIdle /\ PayIdle /\ StrIdle
  /\ ExtIdle /\ DirectIdle /\ AnalyzeIdle /\ ClientIdle /\ SendIdle

TakePicture ==
  /\ tShots < MaxShots
  /\ \E use_flash \in BOOLEAN, flash_delay_ms \in FlashDelays,
        fb \in ShotFrames \cup {NoFrame} :
       LET r == custom_cam_take_picture(use_flash, flash_delay_ms, fb)
       IN  /\ tLed'  = LevelAfter(tLed, r.levels)
           /\ tHeld' = tHeld + (IF fb = NoFrame THEN 0 ELSE 1) - r.fb_returns
           /\ tLast' = [done |-> TRUE, use_flash |-> use_flash,
                        flash_delay_ms |-> flash_delay_ms, fb |-> fb,
                        levels |-> r.levels, delay |-> r.delay, ret |-> r.ret,
                        fb_returns |-> r.fb_returns]
  /\ tShots' = tShots + 1
  /\ UNCHANGED <<streamVars, chunkVars, oneVars, jsonVars, payVars, strVars,
                 extVars, directVars, analyzeVars, clientVars,
                 sendVars>>

\* custom_cam_return_fb on a frame the caller holds.
ReturnFb ==
  /\ tHeld > 0
  /\ tHeld' = tHeld - 1
  /\ UNCHANGED <<tLed, tShots, tLast>>
  /\ UNCHANGED <<streamVars, chunkVars, oneVars, jsonVars, payVars, strVars,
                 extVars, directVars, analyzeVars, clientVars,
                 sendVars>>

NextShot == TakePicture \/ ReturnFb

(***************************************************************************)
(* SpecStream: a caller splits x into consecutive non-empty chunks and     *)
(* passes them in order to esp_cam_base64_encode_stream with one state     *)
(* byte (0 before the first call); independently, esp_cam_base64_encode    *)
(* is called once on the whole of x.                                       *)
(***************************************************************************)
InitStream ==
  /\ sInput \in Inputs
  /\ sPos = 0 /\ sState = 0 /\ sOut = << >> /\ sCalls = 0
  /\ sWhole = NotCalled
  /\ ChunkIdle /\ OneIdle /\ JsonIdle /\ PayIdle /\ StrIdle /\ ExtIdle
  /\ DirectIdle /\ AnalyzeIdle /\ ClientIdle /\ ShotIdle /\ SendIdle

\* One esp_cam_base64_encode_stream call on the next k bytes of x (the only
\* chunk of an empty x is the empty one).
StreamCall ==
  /\ \E k \in 0..(Len(sInput) - sPos) :
       /\ (k = 0) => (Len(sInput) = 0 /\ sCalls = 0)
       /\ LET r == esp_cam_base64_encode_stream(
                     SubSeq(sInput, sPos + 1, sPos + k), sState)
          IN  /\ sPos'   = sPos + k
              /\ sState' = r.state
              /\ sOut'   = sOut \o r.out
  /\ sCalls' = sCalls + 1
  /\ UNCHANGED <<sInput, sWhole>>
  /\ UNCHANGED <<chunkVars, oneVars, jsonVars, payVars, strVars, extVars,
                 directVars, analyzeVars, clientVars,
                 shotVars,
                 sendVars>>

\* esp_cam_base64_encode(x, output): what the payload assembler calls.
EncodeWhole ==
  /\ ~sWhole.done
  /\ LET r == esp_cam_base64_encode(sInput)
     IN  sWhole' = [done |-> TRUE, out |-> r.out, nul |-> r.nul]
  /\ UNCHANGED <<sInput, sPos, sState, sOut, sCalls>>
  /\ UNCHANGED <<chunkVars, oneVars, jsonVars, payVars, strVars, extVars,
                 directVars, analyzeVars, clientVars,
                 shotVars,
                 sendVars>>

NextStream == StreamCall \/ EncodeWhole

(***************************************************************************)
(* SpecChunk: a caller zeroes a base64_state_t, passes consecutive         *)
(* non-empty chunks of x to encode_base64_chunk and then calls             *)
(* encode_base64_finalize, each time with an output buffer that has room   *)
(* for everything the call produces.                                       *)
(***************************************************************************)
InitChunk ==
  /\ cInput \in Inputs
  /\ cPos = 0 /\ cState = ZeroState /\ cOut = << >> /\ cCalls = 0
  /\ cFin = NotCalled /\ cLast = NotCalled
  /\ StreamIdle /\ OneIdle /\ JsonIdle /\ PayIdle /\ StrIdle /\ ExtIdle
  /\ DirectIdle /\ AnalyzeIdle /\ ClientIdle /\ ShotIdle /\ SendIdle

ChunkCall ==
  /\ ~cFin.done
  /\ \E k \in 1..(Len(cInput) - cPos), ub \in ChunkUb(cState) :
       LET r == encode_base64_chunk(SubSeq(cInput, cPos + 1, cPos + k),
                                    calculate_base64_length(k), cState, ub)
       IN  /\ cPos'   = cPos + k
           /\ cState' = r.state
           /\ cOut'   = cOut \o r.out
           /\ cLast'  = [done |-> TRUE, op |-> "chunk", input_length |-> k,
                         output_size |-> calculate_base64_length(k),
                         before |-> cState, ret |-> r.ret, out |-> r.out,
                         nul |-> FALSE, state |-> r.state]
  /\ cCalls' = cCalls + 1
  /\ UNCHANGED <<cInput, cFin>>
  /\ UNCHANGED <<streamVars, oneVars, jsonVars, payVars, strVars, extVars,
                 directVars, analyzeVars, clientVars,
                 shotVars,
                 sendVars>>

FinalizeCall ==
  /\ ~cFin.done
  /\ cPos = Len(cInput)
  /\ \E ub \in FinalizeUb(cState) :
       LET r == encode_base64_finalize(calculate_base64_length(1), cState, ub)
       IN  /\ cFin'   = [done |-> TRUE, ret |-> r.ret, out |-> r.out, nul |-> r.nul]
           /\ cState' = r.state
           /\ cOut'   = cOut \o r.out
           /\ cLast'  = [done |-> TRUE, op |-> "finalize", input_length |-> 0,
                         output_size |-> calculate_base64_length(1),
                         before |-> cState, ret |-> r.ret, out |-> r.out,
                         nul |-> r.nul, state |-> r.state]
  /\ UNCHANGED <<cInput, cPos, cCalls>>
  /\ UNCHANGED <<streamVars, oneVars, jsonVars, payVars, strVars, extVars,
                 directVars, analyzeVars, clientVars,
                 shotVars,
                 sendVars>>

NextChunk == ChunkCall \/ FinalizeCall

(***************************************************************************)
(* SpecChunkAny: the same caller, passing any output_size with each call,  *)
(* too small ones included, and calling encode_base64_finalize at any      *)
(* time, also twice in a row and before the last chunk.                    *)
(***************************************************************************)
MaxAnyLen == 2          \* longest input of this caller
MaxFinalizeSize == 2    \* largest output_size it passes to finalize

InitChunkAny ==
  /\ cInput \in UNION { [1..n -> ByteVals] : n \in 0..MaxAnyLen }
  /\ cPos = 0 /\ cState = ZeroState /\ cOut = << >> /\ cCalls = 0
  /\ cFin = NotCalled /\ cLast = NotCalled
  /\ StreamIdle /\ OneIdle /\ JsonIdle /\ PayIdle /\ StrIdle /\ ExtIdle
  /\ DirectIdle /\ AnalyzeIdle /\ ClientIdle /\ ShotIdle /\ SendIdle

ChunkCallAny ==
  /\ ~cFin.done
  /\ \E k \in 1..(Len(cInput) - cPos) :
       \E size \in 0..calculate_base64_length(k), ub \in ChunkUb(cState) :
         LET r == encode_base64_chunk(SubSeq(cInput, cPos + 1, cPos + k),
                                      size, cState, ub)
         IN  /\ cPos'   = cPos + k
             /\ cState' = r.state
             /\ cOut'   = cOut \o r.out
             /\ cLast'  = [done |-> TRUE, op |-> "chunk", input_length |-> k,
                           output_size |-> size,
                           before |-> cState, ret |-> r.ret, out |-> r.out,
                           nul |-> FALSE, state |-> r.state]
  /\ cCalls' = cCalls + 1
  /\ UNCHANGED <<cInput, cFin>>
  /\ UNCHANGED <<streamVars, oneVars, jsonVars, payVars, strVars, extVars,
                 directVars, analyzeVars, clientVars,
                 shotVars,
                 sendVars>>

FinalizeCallAny ==
  /\ \E size \in 0..MaxFinalizeSize, ub \in FinalizeUb(cState) :
       LET r == encode_base64_finalize(size, cState, ub)
       IN  /\ cFin'   = [done |-> TRUE, ret |-> r.ret, out |-> r.out, nul |-> r.nul]
           /\ cState' = r.state
           /\ cOut'   = cOut \o r.out
           /\ cLast'  = [done |-> TRUE, op |-> "finalize", input_length |-> 0,
                         output_size |-> size,
                         before |-> cState, ret |-> r.ret, out |-> r.out,
                         nul |-> r.nul, state |-> r.state]
  /\ UNCHANGED <<cInput, cPos, cCalls>>
  /\ UNCHANGED <<streamVars, oneVars, jsonVars, payVars, strVars, extVars,
                 directVars, analyzeVars, clientVars,
                 shotVars,
                 sendVars>>

NextChunkAny == ChunkCallAny \/ FinalizeCallAny

(***************************************************************************)
(* SpecOne: encode_base64 called once on x with an output buffer of any    *)
(* size up to calculate_base64_length(Len(x)) + 1 bytes.                   *)
(***************************************************************************)
InitOne ==
  /\ oInput \in Inputs
  /\ oSize \in 0..(calculate_base64_length(Len(oInput)) + 1)
  /\ oRes = NotCalled
  /\ StreamIdle /\ ChunkIdle /\ JsonIdle /\ PayIdle /\ StrIdle /\ ExtIdle
  /\ DirectIdle /\ AnalyzeIdle /\ ClientIdle /\ ShotIdle /\ SendIdle

EncodeOne ==
  /\ ~oRes.done
  /\ LET r == encode_base64(oInput, oSize)
     IN  oRes' = [done |-> TRUE, ret |-> r.ret, out |-> r.out, nul |-> r.nul]
  /\ UNCHANGED <<oInput, oSize>>
  /\ UNCHANGED <<streamVars, chunkVars, jsonVars, payVars, strVars, extVars,
                 directVars, analyzeVars, clientVars,
                 shotVars,
                 sendVars>>

NextOne == EncodeOne

(***************************************************************************)
(* SpecJson: a caller initialises the builder and then makes builder calls *)
(* in any order on one buffer of max_len = MaxBuf bytes, and stops at the  *)
(* first call that returns an error.                                       *)
(***************************************************************************)
Keys == { << "k" >> }

StrVals == { << "a" >>, << "\"" >>, << "\n" >> }

NumVals == { << "1" >> }

InitJson ==
  /\ jState = esp_cam_json_init
  /\ jBuf = << >>
  /\ jMax = MaxBuf
  /\ jStack = << >>
  /\ jAfterKey = FALSE /\ jAllOk = TRUE /\ jNested = TRUE
  /\ jLast = NoCall
  /\ jStops = TRUE
  /\ StreamIdle /\ ChunkIdle /\ OneIdle /\ PayIdle /\ StrIdle /\ ExtIdle
  /\ DirectIdle /\ AnalyzeIdle /\ ClientIdle /\ ShotIdle /\ SendIdle

\* The innermost container opened and not yet closed.
TopKind == IF jStack = << >> THEN "none" ELSE jStack[Len(jStack)].kind

\* The history after a successful call of shape "open", "close", "key" or
\* "value"; kind is the container kind of an open.
MarkItem(stack) ==
  IF stack = << >> THEN stack
  ELSE [stack EXCEPT ![Len(stack)] = [@ EXCEPT !.items = TRUE]]

StackAfter(shape, kind) ==
  CASE shape = "open"  -> Append(MarkItem(jStack), [kind |-> kind, items |-> FALSE])
    [] shape = "close" -> IF jStack = << >> THEN jStack
                          ELSE SubSeq(jStack, 1, Len(jStack) - 1)
    [] OTHER           -> MarkItem(jStack)

\* A call of the given shape was made and returned r = [ret, state, buf].
Called(op, shape, kind, r) ==
  LET proper == /\ jNested
                /\ \/ shape = "open"
                   \/ shape = "close" /\ TopKind = kind
  IN  /\ jStops => jAllOk
      /\ jState' = r.state
      /\ jBuf'   = r.buf
      /\ jLast'  = [op |-> op, ret |-> r.ret, preTop |-> TopKind,
                    preItems |-> (jStack # << >> /\ jStack[Len(jStack)].items),
                    preAfterKey |-> jAfterKey, preDepth |-> jState.depth,
                    preLen |-> Len(jBuf), preState |-> jState,
                    proper |-> proper]
      /\ jStack' = IF r.ret = ESP_OK THEN StackAfter(shape, kind) ELSE jStack
      /\ jAfterKey' = IF r.ret = ESP_OK THEN shape = "key" ELSE jAfterKey
      /\ jAllOk'  = (jAllOk /\ r.ret = ESP_OK)
      /\ jNested' = (proper /\ r.ret = ESP_OK)
      /\ UNCHANGED <<jMax, jStops>>
      /\ UNCHANGED <<streamVars, chunkVars, oneVars, payVars, strVars, extVars,
                     directVars, analyzeVars, clientVars,
                 shotVars,
                 sendVars>>

JStartObject ==
  Called("start_object", "open", "object",
         esp_cam_json_start_object(jState, jBuf, jMax))

JEndObject ==
  Called("end_object", "close", "object",
         esp_cam_json_end_object(jState, jBuf, jMax))

JStartArray ==
  Called("start_array", "open", "array",
         esp_cam_json_start_array(jState, jBuf, jMax))

JEndArray ==
  Called("end_array", "close", "array",
         esp_cam_json_end_array(jState, jBuf, jMax))

JKey ==
  \E key \in Keys :
    Called("key", "key", "none", esp_cam_json_key(jState, jBuf, jMax, key))

JString ==
  \E value \in StrVals :
    Called("string", "value", "none",
           esp_cam_json_string(jState, jBuf, jMax, value))

JNumber ==
  \E value \in NumVals :
    Called("number", "value", "none",
           esp_cam_json_number(jState, jBuf, jMax, value))

JBool ==
  \E value \in BOOLEAN :
    Called("bool", "value", "none", esp_cam_json_bool(jState, jBuf, jMax, value))

JNull ==
  Called("null", "value", "none", esp_cam_json_null(jState, jBuf, jMax))

NextJson ==
  \/ JStartObject \/ JEndObject \/ JStartArray \/ JEndArray
  \/ JKey \/ JString \/ JNumber \/ JBool \/ JNull

(***************************************************************************)
(* SpecJsonAny: as SpecJson on a buffer of max_len = SmallBuf bytes, with  *)
(* a caller that goes on making calls after a call has failed.             *)
(***************************************************************************)
SmallBuf == 6        \* max_len of the buffer when calls go on after errors

InitJsonAny ==
  /\ jState = esp_cam_json_init
  /\ jBuf = << >>
  /\ jMax = SmallBuf
  /\ jStack = << >>
  /\ jAfterKey = FALSE /\ jAllOk = TRUE /\ jNested = TRUE
  /\ jLast = NoCall
  /\ jStops = FALSE
  /\ StreamIdle /\ ChunkIdle /\ OneIdle /\ PayIdle /\ StrIdle /\ ExtIdle
  /\ DirectIdle /\ AnalyzeIdle /\ ClientIdle /\ ShotIdle /\ SendIdle

(***************************************************************************)
(* SpecPayload: ESP_CAM_CaptureAndGetGeminiPayload called once with a      *)
(* non-null url, key and prompt; the camera delivers a frame or none, and  *)
(* malloc succeeds or fails.                                               *)
(***************************************************************************)
LongPrompt == 119    \* length of the longest prompt

\* A prompt of n quote characters.
QuoteRun(n) == [i \in 1..n |-> "\""]

Prompts ==
  { << >>, << "P" >>, << "\"" >>, << "a", "\n" >> }
    \cup { QuoteRun(LongPrompt - 4), QuoteRun(LongPrompt - 2), QuoteRun(LongPrompt) }

InitPayload ==
  /\ pPrompt \in Prompts
  /\ pImage \in Inputs
  /\ pRes = NotCalled
  /\ StreamIdle /\ ChunkIdle /\ OneIdle /\ JsonIdle /\ StrIdle /\ ExtIdle
  /\ DirectIdle /\ AnalyzeIdle /\ ClientIdle /\ ShotIdle /\ SendIdle

NoPayload(captured) ==
  [done |-> TRUE, ret |-> "NULL", doc |-> << >>, state |-> esp_cam_json_init,
   rets |-> << >>, fb_returns |-> (IF captured THEN 1 ELSE 0), freed |-> FALSE,
   captured |-> captured, allocated |-> FALSE, high |-> 0]

\* esp_camera_fb_get() returns NULL.
CaptureFails ==
  /\ ~pRes.done
  /\ pRes' = NoPayload(FALSE)
  /\ UNCHANGED <<pPrompt, pImage>>
  /\ UNCHANGED <<streamVars, chunkVars, oneVars, jsonVars, strVars, extVars,
                 directVars, analyzeVars, clientVars,
                 shotVars,
                 sendVars>>

\* malloc(json_size) returns NULL.
AllocFails ==
  /\ ~pRes.done
  /\ pRes' = NoPayload(TRUE)
  /\ UNCHANGED <<pPrompt, pImage>>
  /\ UNCHANGED <<streamVars, chunkVars, oneVars, jsonVars, strVars, extVars,
                 directVars, analyzeVars, clientVars,
                 shotVars,
                 sendVars>>

\* The frame is captured and the buffer allocated: the document is built.
CaptureAndBuild ==
  /\ ~pRes.done
  /\ \E nul_found \in BOOLEAN, garbage \in 0..MaxGarbage :
       pRes' = BuildPayload(pPrompt, pImage, nul_found, garbage)
  /\ UNCHANGED <<pPrompt, pImage>>
  /\ UNCHANGED <<streamVars, chunkVars, oneVars, jsonVars, strVars, extVars,
                 directVars, analyzeVars, clientVars,
                 shotVars,
                 sendVars>>

\* The frame is captured with a NULL buf and the buffer allocated.
EncoderFails ==
  /\ ~pRes.done
  /\ pRes' = BuildPayloadEncoderFails(pPrompt, pImage)
  /\ UNCHANGED <<pPrompt, pImage>>
  /\ UNCHANGED <<streamVars, chunkVars, oneVars, jsonVars, strVars, extVars,
                 directVars, analyzeVars, clientVars,
                 shotVars,
                 sendVars>>

NextPayload == CaptureFails \/ AllocFails \/ CaptureAndBuild \/ EncoderFails

(***************************************************************************)
(* SpecString: esp_cam_json_string called once, from the initial builder   *)
(* state, on an empty buffer large enough for any escape of the value.     *)
(* char is an unsigned type on the ESP32 toolchains, so a byte above 0x7f  *)
(* (here "<E9>") is not below 32.                                          *)
(***************************************************************************)
MaxStr == 3          \* longest value passed to esp_cam_json_string

StrAlphabet ==
  {"a", "/", "\"", "\\", "<BEL>", "<BS>", "\t", "\n", "<FF>", "\r", "<US>",
   "<DEL>", "<E9>"}

StrValues == UNION {[1..n -> StrAlphabet] : n \in 0..MaxStr}

\* Two quotes, six characters for each character of the value, terminator.
StringRoom == 6 * MaxStr + 3

InitString ==
  /\ eValue \in StrValues
  /\ eRes = NotCalled
  /\ StreamIdle /\ ChunkIdle /\ OneIdle /\ JsonIdle /\ PayIdle /\ ExtIdle
  /\ DirectIdle /\ AnalyzeIdle /\ ClientIdle /\ ShotIdle /\ SendIdle

StringCall ==
  /\ ~eRes.done
  /\ eRes' = [done |-> TRUE,
              r |-> esp_cam_json_string(esp_cam_json_init, << >>, StringRoom, eValue)]
  /\ UNCHANGED eValue
  /\ UNCHANGED <<streamVars, chunkVars, oneVars, jsonVars, payVars, extVars,
                 directVars, analyzeVars, clientVars,
                 shotVars,
                 sendVars>>

NextString == StringCall

(***************************************************************************)
(* SpecExtract: gemini_client_extract_text called once on a response text, *)
(* with response_len = strlen(response) as ESP_CAM_SendGeminiRequest       *)
(* passes it; malloc succeeds or fails.                                    *)
(***************************************************************************)
MaxBody == 4         \* longest run of free characters after the marker

BodyAlphabet == {"a", "n", "u", "\"", "\\"}

Bodies == UNION {[1..n -> BodyAlphabet] : n \in 0..MaxBody}

\* The marker without the space after the colon.
CompactMarker == << "\"", "t", "e", "x", "t", "\"", ":", "\"" >>

\* {"candidates":[{"content":{"parts":[{"text":"Hello \"world\""}]}}]}
HelloResponse ==
  << "{", "\"", "c", "a", "n", "d", "i", "d", "a", "t", "e", "s", "\"", ":",
     "[", "{", "\"", "c", "o", "n", "t", "e", "n", "t", "\"", ":", "{", "\"",
     "p", "a", "r", "t", "s", "\"", ":", "[", "{", "\"", "t", "e", "x", "t",
     "\"", ":", "\"", "H", "e", "l", "l", "o", " ", "\\", "\"", "w", "o",
     "r", "l", "d", "\\", "\"", "\"", "}", "]", "}", "}", "]", "}" >>

\* The same response with a space after the colon of the text field.
HelloSpacedResponse ==
  << "{", "\"", "c", "a", "n", "d", "i", "d", "a", "t", "e", "s", "\"", ":",
     "[", "{", "\"", "c", "o", "n", "t", "e", "n", "t", "\"", ":", "{", "\"",
     "p", "a", "r", "t", "s", "\"", ":", "[", "{", "\"", "t", "e", "x", "t",
     "\"", ":", " ", "\"", "H", "e", "l", "l", "o", " ", "\\", "\"", "w",
     "o", "r", "l", "d", "\\", "\"", "\"", "}", "]", "}", "}", "]", "}" >>

\* A response is an opening, then the marker, the compact marker or neither,
\* then free characters, possibly followed by a second text field.
Responses ==
  { head \o mid \o tail :
      head \in { << >>, << "{" >> },
      mid \in { text_marker, CompactMarker, << "x" >> },
      tail \in Bodies \cup { b \o text_marker \o << "z", "\"" >> :
                              b \in { << >>, << "a" >>, << "\"" >>, << "\\" >> } } }
    \cup { << >>, HelloResponse, HelloSpacedResponse }

InitExtract ==
  /\ xResponse \in Responses
  /\ xRes = NotCalled
  /\ StreamIdle /\ ChunkIdle /\ OneIdle /\ JsonIdle /\ PayIdle /\ StrIdle
  /\ DirectIdle /\ AnalyzeIdle /\ ClientIdle /\ ShotIdle /\ SendIdle

ExtractText ==
  /\ ~xRes.done
  /\ \E malloc_ok \in BOOLEAN :
       xRes' = gemini_client_extract_text(xResponse, Len(xResponse), malloc_ok)
  /\ UNCHANGED xResponse
  /\ UNCHANGED <<streamVars, chunkVars, oneVars, jsonVars, payVars, strVars,
                 directVars, analyzeVars, clientVars,
                 shotVars,
                 sendVars>>

NextExtract == ExtractText

(***************************************************************************)
(* encodeDirectlyToGeminiJson and captureImageAsGeminiJson (custom_cam.cpp)*)
(***************************************************************************)
\* static size_t calculateBase64Length(size_t input_length)
calculateBase64Length(input_length) == (((input_length + 2) \div 3) * 4) + 1

\* const char* json_prefix (56 characters)
json_prefix ==
  << "{", "\n", " ", " ", "\"", "c", "o", "n", "t", "e", "n", "t", "s",
     "\"", ":", "[", "\n", " ", " ", " ", " ", "{", "\n", " ", " ", " ",
     " ", " ", " ", "\"", "p", "a", "r", "t", "s", "\"", ":", "[", "\n",
     " ", " ", " ", " ", " ", " ", " ", " ", "{", "\"", "t", "e", "x", "t",
     "\"", ":", "\"" >>

\* const char* prompt_suffix (83 characters)
prompt_suffix ==
  << "\"", "}", ",", "\n", " ", " ", " ", " ", " ", " ", " ", " ", "{",
     "\"", "i", "n", "l", "i", "n", "e", "_", "d", "a", "t", "a", "\"", ":",
     "{", "\n", " ", " ", " ", " ", " ", " ", " ", " ", " ", " ", "\"", "m",
     "i", "m", "e", "_", "t", "y", "p", "e", "\"", ":", "\"", "i", "m", "a",
     "g", "e", "/", "j", "p", "e", "g", "\"", ",", "\n", " ", " ", " ", " ",
     " ", " ", " ", " ", " ", " ", "\"", "d", "a", "t", "a", "\"", ":", "\"" >>

\* const char* json_suffix (105 characters)
json_suffix ==
  << "\"", "\n", " ", " ", " ", " ", " ", " ", " ", " ", "}", "}", "\n",
     " ", " ", " ", " ", " ", " ", "]", "\n", " ", " ", " ", " ", "}", "\n",
     " ", " ", "]", ",", "\n", " ", " ", "\"", "g", "e", "n", "e", "r", "a",
     "t", "i", "o", "n", "C", "o", "n", "f", "i", "g", "\"", ":", "{", "\n",
     " ", " ", " ", " ", "\"", "m", "a", "x", "O", "u", "t", "p", "u", "t",
     "T", "o", "k", "e", "n", "s", "\"", ":", "5", ",", "\n", " ", " ", " ",
     " ", "\"", "t", "e", "m", "p", "e", "r", "a", "t", "u", "r", "e", "\"",
     ":", "1", "\n", " ", " ", "}", "\n", "}" >>

\* size_t total_size = strlen(json_prefix) + strlen(prompt) + ... + 1
DirectTotalSize(input_length, prompt) ==
  Len(json_prefix) + Len(prompt) + Len(prompt_suffix)
    + (calculateBase64Length(input_length) - 1) + Len(json_suffix) + 1

\* The body of the prompt loop copying every character as it is.
PromptCharRaw(c) == << c >>

\* The body of the prompt loop: a backslash goes before '"' and '\'.
PromptChar(c) == IF c = "\"" \/ c = "\\" THEN << "\\", c >> ELSE << c >>

\* "Copy prompt (with escaping for quotes)"
RECURSIVE CopyPrompt(_)
CopyPrompt(prompt) ==
  IF prompt = << >> THEN << >>
  ELSE PromptChar(Head(prompt)) \o CopyPrompt(Tail(prompt))

\* One turn of the base64 loop: the four characters written for the bytes
\* from index i.
DirectGroup(input_data, i) ==
  LET triple == Pack(ByteOrZero(input_data, i), ByteOrZero(input_data, i + 1),
                     ByteOrZero(input_data, i + 2))
  IN  << Sextet(triple, 18),
         Sextet(triple, 12),
         IF i + 1 < Len(input_data) THEN Sextet(triple, 6) ELSE "=",
         IF i + 2 < Len(input_data) THEN Sextet(triple, 0) ELSE "=" >>

\* for (i = 0; i < input_length; i += 3)
RECURSIVE DirectLoop(_, _)
DirectLoop(input_data, i) ==
  IF i < Len(input_data)
    THEN DirectGroup(input_data, i) \o DirectLoop(input_data, i + 3)
    ELSE << >>

\* encodeDirectlyToGeminiJson for non-null pointers: [ret, out, high]. out is
\* the characters between output_buffer and pos at the end, high the number
\* of bytes of output_buffer written, the terminator strcpy puts after the
\* suffix included.
encodeDirectlyToGeminiJson(input_data, output_buffer_size, prompt) ==
  IF Len(input_data) = 0
       \/ DirectTotalSize(Len(input_data), prompt) > output_buffer_size
    THEN [ret |-> 0, out |-> << >>, high |-> 0]
    ELSE LET out == json_prefix \o CopyPrompt(prompt) \o prompt_suffix
                      \o DirectLoop(input_data, 0) \o json_suffix
         IN  [ret |-> Len(out), out |-> out, high |-> Len(out) + 1]

\* size_t json_overhead = 500
json_overhead == 500

\* A buffer_size equal to the total_size the encoder computes.
GeminiJsonBufferSizeExact(fb_len, prompt) == DirectTotalSize(fb_len, prompt)

\* size_t buffer_size = base64_len + json_overhead + prompt_len
GeminiJsonBufferSize(fb_len, prompt) ==
  calculateBase64Length(fb_len) + json_overhead + Len(prompt) * 2

\* "Verify we got a JPEG image"
InvalidJpeg(format, buf) ==
  \/ format # "PIXFORMAT_JPEG"
  \/ Len(buf) < 2
  \/ buf[1] # 255
  \/ buf[2] # 216

\* What a call leaves behind: the value returned, *encoded_size, the
\* document and the bytes written, and the calls made on the frame and the
\* heap.
DirectOutcome(op, returned, r, size, fb_returns, mallocs, frees) ==
  [done |-> TRUE, op |-> op, returned |-> returned, ret |-> r.ret,
   out |-> r.out, high |-> r.high, buffer_size |-> size,
   fb_returns |-> fb_returns, mallocs |-> mallocs, frees |-> frees]

NothingWritten == [ret |-> 0, out |-> << >>, high |-> 0]

\* captureImageAsGeminiJson for non-null prompt and gemini_key. format is
\* "NULL" when esp_camera_fb_get() returns NULL.
captureImageAsGeminiJson(prompt, format, buf, malloc_ok) ==
  IF format = "NULL"
    THEN DirectOutcome("capture", "NULL", NothingWritten, 0, 0, 0, 0)
  ELSE IF InvalidJpeg(format, buf)
    THEN DirectOutcome("capture", "NULL", NothingWritten, 0, 1, 0, 0)
  ELSE IF ~malloc_ok
    THEN DirectOutcome("capture", "NULL", NothingWritten,
                       GeminiJsonBufferSize(Len(buf), prompt), 1, 1, 0)
  ELSE LET size == GeminiJsonBufferSize(Len(buf), prompt)
           r == encodeDirectlyToGeminiJson(buf, size, prompt)
       IN  IF r.ret = 0
             THEN DirectOutcome("capture", "NULL", r, size, 1, 1, 1)
             ELSE DirectOutcome("capture", "json_buffer", r, size, 1, 1, 0)

(***************************************************************************)
(* SpecDirect: captureImageAsGeminiJson is called once, on a frame the     *)
(* camera may fail to deliver and with a malloc that may fail; or          *)
(* encodeDirectlyToGeminiJson is applied to the bytes alone, with the      *)
(* buffer size captureImageAsGeminiJson computes for them.                 *)
(***************************************************************************)
MaxImage == 3        \* longest image without a JPEG header
MaxJpegBody == 1     \* bytes after the FF D8 header

DirectAlphabet == {"P", "\"", "\\"}

DirectPrompts ==
  UNION { [1..n -> DirectAlphabet] : n \in 0..MaxStr } \cup { << "\\", "n" >> }

DirectImages ==
  UNION { [1..n -> ByteVals] : n \in 0..MaxImage }
    \cup { << 1, 2, 3 >> }
    \cup { << 255, 216 >> \o x : x \in UNION { [1..n -> ByteVals] : n \in 0..MaxJpegBody } }

InitDirect ==
  /\ dPrompt \in DirectPrompts
  /\ dImage \in DirectImages
  /\ dRes = NotCalled
  /\ StreamIdle /\ ChunkIdle /\ OneIdle /\ JsonIdle /\ PayIdle /\ StrIdle
  /\ ExtIdle /\ AnalyzeIdle /\ ClientIdle /\ ShotIdle /\ SendIdle

EncodeDirectly ==
  /\ ~dRes.done
  /\ LET size == GeminiJsonBufferSize(Len(dImage), dPrompt)
         r == encodeDirectlyToGeminiJson(dImage, size, dPrompt)
     IN  dRes' = DirectOutcome("encode",
                               IF r.ret = 0 THEN "NULL" ELSE "json_buffer",
                               r, size, 0, 0, 0)
  /\ UNCHANGED <<dPrompt, dImage>>
  /\ UNCHANGED <<streamVars, chunkVars, oneVars, jsonVars, payVars, strVars,
                 extVars, analyzeVars, clientVars,
                 shotVars,
                 sendVars>>

CaptureAsGeminiJson ==
  /\ ~dRes.done
  /\ \E format \in {"NULL", "PIXFORMAT_RGB565", "PIXFORMAT_JPEG"},
        malloc_ok \in BOOLEAN :
       dRes' = captureImageAsGeminiJson(dPrompt, format, dImage, malloc_ok)
  /\ UNCHANGED <<dPrompt, dImage>>
  /\ UNCHANGED <<streamVars, chunkVars, oneVars, jsonVars, payVars, strVars,
                 extVars, analyzeVars, clientVars,
                 shotVars,
                 sendVars>>

NextDirect == EncodeDirectly \/ CaptureAsGeminiJson

(***************************************************************************)
(* SpecAnalyze: one call of ESP_CAM_CaptureAndAnalyze, statement by        *)
(* statement. The heap holds up to three blocks: the payload, the response *)
(* and the extracted text. Every callee may fail; the server's answer is   *)
(* any non-empty response.                                                 *)
(***************************************************************************)
\* ESP_CAM_FreePayload that does not call free().
ESP_CAM_FreePayload_skip(h, b) == h

\* ESP_CAM_FreePayload on the pointer to block b (NULL when the block was
\* never allocated). h = [blocks, frees, bad].
ESP_CAM_FreePayload(h, b) ==
  IF h.blocks[b] = "none" THEN h
  ELSE [blocks |-> [h.blocks EXCEPT ![b] = "freed"],
        frees  |-> [h.frees EXCEPT ![b] = @ + 1],
        bad    |-> (h.bad \/ h.blocks[b] # "live")]

\* The block a read through a pointer goes to must be live.
ReadOf(b) == aBad \/ aBlocks[b] # "live"

AnalyzeDocs == Responses \ { << >> }

InitAnalyze ==
  /\ aPc = "get_payload" /\ aDoc \in AnalyzeDocs
  /\ aBlocks = NoBlocks /\ aFrees = NoFrees /\ aBad = FALSE /\ aRet = NoReturn
  /\ StreamIdle /\ ChunkIdle /\ OneIdle /\ JsonIdle /\ PayIdle /\ StrIdle
  /\ ExtIdle /\ DirectIdle /\ ClientIdle /\ ShotIdle /\ SendIdle

\* char* payload = ESP_CAM_CaptureAndGetGeminiPayload(...);
\* if (!payload) return NULL;
GetPayload ==
  /\ aPc = "get_payload"
  /\ \E ok \in BOOLEAN :
       IF ok
         THEN /\ aBlocks' = [aBlocks EXCEPT !["payload"] = "live"]
              /\ aPc' = "send" /\ aRet' = aRet
         ELSE /\ aBlocks' = aBlocks
              /\ aPc' = "returned"
              /\ aRet' = [kind |-> "NULL", block |-> "none", text |-> << >>]
  /\ UNCHANGED <<aDoc, aFrees, aBad>>
  /\ UNCHANGED <<streamVars, chunkVars, oneVars, jsonVars, payVars, strVars,
                 extVars, directVars, clientVars,
                 shotVars,
                 sendVars>>

\* char* response = ESP_CAM_SendGeminiRequest(gemini_url, api_key, payload);
SendRequest ==
  /\ aPc = "send"
  /\ aBad' = ReadOf("payload")
  /\ \E ok \in BOOLEAN :
       aBlocks' = IF ok THEN [aBlocks EXCEPT !["response"] = "live"] ELSE aBlocks
  /\ aPc' = "free_payload"
  /\ UNCHANGED <<aDoc, aFrees, aRet>>
  /\ UNCHANGED <<streamVars, chunkVars, oneVars, jsonVars, payVars, strVars,
                 extVars, directVars, clientVars,
                 shotVars,
                 sendVars>>

\* ESP_CAM_FreePayload(payload); if (!response) return NULL;
FreePayloadStep ==
  /\ aPc = "free_payload"
  /\ LET h == ESP_CAM_FreePayload([blocks |-> aBlocks, frees |-> aFrees,
                                   bad |-> aBad], "payload")
     IN  /\ aBlocks' = h.blocks /\ aFrees' = h.frees /\ aBad' = h.bad
  /\ IF aBlocks["response"] = "none"
       THEN /\ aPc' = "returned"
            /\ aRet' = [kind |-> "NULL", block |-> "none", text |-> << >>]
       ELSE /\ aPc' = "extract" /\ aRet' = aRet
  /\ UNCHANGED aDoc
  /\ UNCHANGED <<streamVars, chunkVars, oneVars, jsonVars, payVars, strVars,
                 extVars, directVars, clientVars,
                 shotVars,
                 sendVars>>

\* char* text = ESP_CAM_ExtractGeminiResponse(response);
\* The text is written into the block malloc(text_len + 1) returns.
ExtractStep ==
  /\ aPc = "extract"
  /\ aBad' = ReadOf("response")
  /\ \E malloc_ok \in BOOLEAN :
       LET r == gemini_client_extract_text(aDoc, Len(aDoc), malloc_ok)
       IN  IF r.ret = "NULL"
             THEN /\ aBlocks' = aBlocks
                  /\ aRet' = [kind |-> "NULL", block |-> "none", text |-> << >>]
             ELSE /\ aBlocks' = [aBlocks EXCEPT !["text"] = "live"]
                  /\ aRet' = [kind |-> "text", block |-> "text", text |-> r.text]
  /\ aPc' = "free_response"
  /\ UNCHANGED <<aDoc, aFrees>>
  /\ UNCHANGED <<streamVars, chunkVars, oneVars, jsonVars, payVars, strVars,
                 extVars, directVars, clientVars,
                 shotVars,
                 sendVars>>

\* ESP_CAM_FreePayload(response); return text;
FreeResponseStep ==
  /\ aPc = "free_response"
  /\ LET h == ESP_CAM_FreePayload([blocks |-> aBlocks, frees |-> aFrees,
                                   bad |-> aBad], "response")
     IN  /\ aBlocks' = h.blocks /\ aFrees' = h.frees /\ aBad' = h.bad
  /\ aPc' = "returned"
  /\ UNCHANGED <<aDoc, aRet>>
  /\ UNCHANGED <<streamVars, chunkVars, oneVars, jsonVars, payVars, strVars,
                 extVars, directVars, clientVars,
                 shotVars,
                 sendVars>>

NextAnalyze ==
  GetPayload \/ SendRequest \/ FreePayloadStep \/ ExtractStep \/ FreeResponseStep

(***************************************************************************)
(* The request lifecycle of gemini_client.c: gemini_client_start_request,  *)
(* gemini_client_write, gemini_client_finish_request, for non-null         *)
(* arguments. Each takes the client and what the HTTP library does, and    *)
(* gives [ret, client].                                                    *)
(***************************************************************************)
ESP_FAIL == "ESP_FAIL"

ESP_ERR_HTTP_CONNECT == "ESP_ERR_HTTP_CONNECT"

\* What esp_http_client_open and esp_http_client_perform return.
HttpResults == {ESP_OK, ESP_FAIL, ESP_ERR_HTTP_CONNECT}

gemini_client_start_request(client, open_err) ==
  IF client.request_started
    THEN [ret |-> ESP_ERR_INVALID_STATE, client |-> client]
  ELSE IF open_err # ESP_OK
    THEN [ret |-> open_err,
          client |-> [client EXCEPT !.opens = @ + 1, !.last_error = open_err]]
  ELSE [ret |-> ESP_OK,
        client |-> [client EXCEPT !.opens = @ + 1, !.request_started = TRUE]]

\* gemini_client_write without the test of request_started.
gemini_client_write_unchecked(client, written_ok) ==
  IF ~written_ok
    THEN [ret |-> ESP_FAIL,
          client |-> [client EXCEPT !.writes = @ + 1, !.last_error = ESP_FAIL]]
  ELSE [ret |-> ESP_OK, client |-> [client EXCEPT !.writes = @ + 1]]

\* written_ok: esp_http_client_write returned 0 or more.
gemini_client_write(client, written_ok) ==
  IF ~client.request_started
    THEN [ret |-> ESP_ERR_INVALID_STATE, client |-> client]
  ELSE IF ~written_ok
    THEN [ret |-> ESP_FAIL,
          client |-> [client EXCEPT !.writes = @ + 1, !.last_error = ESP_FAIL]]
  ELSE [ret |-> ESP_OK, client |-> [client EXCEPT !.writes = @ + 1]]

\* What can happen after esp_http_client_perform succeeded, in the order of
\* the code: a status other than 200 (with or without memory for the error
\* text), no memory for the body, an empty or unreadable body, an API error
\* in the body, or a good body.
FinishOutcomes ==
  {"status_alloc_failed", "status_not_200", "alloc_failed", "empty_body",
   "read_failed", "api_error", "ok"}

FinishReturn(outcome) ==
  CASE outcome \in {"status_alloc_failed", "alloc_failed"} -> ESP_ERR_NO_MEM
    [] outcome = "ok" -> ESP_OK
    [] OTHER -> ESP_FAIL

\* gemini_client_finish_request that resets request_started on every return
\* after esp_http_client_perform succeeded.
gemini_client_finish_request_resets(client, perform_err, outcome) ==
  IF ~client.request_started
    THEN [ret |-> ESP_ERR_INVALID_STATE, client |-> client]
  ELSE IF perform_err # ESP_OK
    THEN [ret |-> perform_err,
          client |-> [client EXCEPT !.performs = @ + 1,
                                    !.last_error = perform_err]]
  ELSE [ret |-> FinishReturn(outcome),
        client |-> [client EXCEPT !.performs = @ + 1,
                                  !.request_started = FALSE]]

gemini_client_finish_request(client, perform_err, outcome) ==
  IF ~client.request_started
    THEN [ret |-> ESP_ERR_INVALID_STATE, client |-> client]
  ELSE IF perform_err # ESP_OK
    THEN [ret |-> perform_err,
          client |-> [client EXCEPT !.performs = @ + 1,
                                    !.last_error = perform_err]]
  ELSE IF outcome # "ok"
    THEN [ret |-> FinishReturn(outcome),
          client |-> [client EXCEPT !.performs = @ + 1]]
  ELSE [ret |-> ESP_OK,
        client |-> [client EXCEPT !.performs = @ + 1,
                                  !.request_started = FALSE]]

(***************************************************************************)
(* SpecClient: a caller holding one client from gemini_client_init makes   *)
(* up to MaxCalls calls on it, in any order.                               *)
(***************************************************************************)
MaxCalls == 4

InitClient ==
  /\ kClient = NewClient /\ kArmed = FALSE /\ kLast = NoClientCall
  /\ StreamIdle /\ ChunkIdle /\ OneIdle /\ JsonIdle /\ PayIdle /\ StrIdle
  /\ ExtIdle /\ DirectIdle /\ AnalyzeIdle /\ ShotIdle /\ SendIdle

\* The record of a call: the call before it is kept beside it, without its
\* own predecessor.
ClientCall(op, r) ==
  [done |-> TRUE, n |-> kLast.n + 1, op |-> op, ret |-> r.ret,
   before |-> kClient, armed |-> kArmed,
   prev |-> IF kLast.done
              THEN [done |-> TRUE, op |-> kLast.op, ret |-> kLast.ret,
                    before |-> kLast.before]
              ELSE [done |-> FALSE]]

StartRequest ==
  /\ kLast.n < MaxCalls
  /\ \E open_err \in HttpResults :
       LET r == gemini_client_start_request(kClient, open_err)
       IN  /\ kClient' = r.client
           /\ kArmed' = (kArmed \/ r.ret = ESP_OK)
           /\ kLast' = ClientCall("start", r)
  /\ UNCHANGED <<streamVars, chunkVars, oneVars, jsonVars, payVars, strVars,
                 extVars, directVars, analyzeVars,
                 shotVars,
                 sendVars>>

WriteRequest ==
  /\ kLast.n < MaxCalls
  /\ \E written_ok \in BOOLEAN :
       LET r == gemini_client_write(kClient, written_ok)
       IN  /\ kClient' = r.client
           /\ kLast' = ClientCall("write", r)
  /\ UNCHANGED kArmed
  /\ UNCHANGED <<streamVars, chunkVars, oneVars, jsonVars, payVars, strVars,
                 extVars, directVars, analyzeVars,
                 shotVars,
                 sendVars>>

FinishRequest ==
  /\ kLast.n < MaxCalls
  /\ \E perform_err \in HttpResults, outcome \in FinishOutcomes :
       LET r == gemini_client_finish_request(kClient, perform_err, outcome)
       IN  /\ kClient' = r.client
           /\ kArmed' = (kArmed /\ r.ret # ESP_OK)
           /\ kLast' = ClientCall("finish", r)
  /\ UNCHANGED <<streamVars, chunkVars, oneVars, jsonVars, payVars, strVars,
                 extVars, directVars, analyzeVars,
                 shotVars,
                 sendVars>>

NextClient == StartRequest \/ WriteRequest \/ FinishRequest

(***************************************************************************)
(* SpecSend: one call of ESP_CAM_SendGeminiRequest with non-NULL           *)
(* arguments, statement by statement, gemini_client_finish_request         *)
(* included. The environment decides whether each allocation and each      *)
(* HTTP call succeeds, the status code, whether the content length is      *)
(* known, what each read returns and whether the body holds an API error.  *)
(***************************************************************************)
\* malloc, calloc, strdup or a first realloc returned block b.
Alloc(mem, b) ==
  [mem EXCEPT ![b] = [st |-> "live", allocs |-> @.allocs + 1, frees |-> @.frees]]

\* free(p) for the pointer that holds block b: nothing for a NULL pointer.
Free(mem, b) ==
  IF mem[b].st = "none" THEN mem
  ELSE [mem EXCEPT ![b] = [st |-> "freed", allocs |-> @.allocs,
                           frees |-> @.frees + 1]]

Max2(a, b) == IF a >= b THEN a ELSE b

\* const int chunk_size = 1024;
chunk_size == 1024

\* An allocation that does not grow with chunk_count.
ChunkAllocFixed(chunk_count) == chunk_size

\* realloc(buffer, chunk_count * chunk_size): the bytes asked for.
ChunkAlloc(chunk_count) == chunk_count * chunk_size

\* A cleanup that leaves the client alone.
gemini_client_cleanup_skip(mem) == mem

\* gemini_client_cleanup(client): the struct and its strings are one block.
gemini_client_cleanup(mem) == Free(mem, "client")

\* The API-error return without "*response = NULL; *response_len = 0;".
RejectResponseKeepingPointer(mem, out) ==
  [mem |-> Free(Free(mem, "message"), "buffer"),
   out |-> [out EXCEPT !.err = ESP_FAIL, !.api_error = TRUE]]

\* "Check for API errors", error_message not NULL: free(error_message);
\* free(*response); *response = NULL; *response_len = 0; return ESP_FAIL.
RejectResponse(mem, out) ==
  [mem |-> Free(Free(mem, "message"), "buffer"),
   out |-> [out EXCEPT !.response = "NULL", !.response_len = 0,
                       !.err = ESP_FAIL, !.api_error = TRUE]]

MaxChunks == 3       \* iterations of the chunk loop before the body ends

ContentLength == 5   \* the content length when the server sends one

\* What esp_http_client_read may return for a request of chunk_size - 1
\* bytes: an error, the end of the body, or 1..1023 bytes read.
ChunkReads == {-1, 0, 1, 2, 512, chunk_size - 2, chunk_size - 1}

\* What esp_http_client_read_response may return for content_length bytes.
KnownReads == {-1, 0, 1, ContentLength}

InitSend ==
  /\ nPc = "extract" /\ nMem = NoMem /\ nBuf = NoBuf /\ nOut = NoOut
  /\ StreamIdle /\ ChunkIdle /\ OneIdle /\ JsonIdle /\ PayIdle /\ StrIdle
  /\ ExtIdle /\ DirectIdle /\ AnalyzeIdle /\ ClientIdle /\ ShotIdle

\* char* model = extract_model_from_url(gemini_url); if (!model) return NULL;
SendExtract ==
  /\ nPc = "extract"
  /\ \E ok \in BOOLEAN :
       IF ok
         THEN /\ nMem' = Alloc(nMem, "model")
              /\ nPc'  = "init"
              /\ nOut' = nOut
         ELSE /\ nMem' = nMem
              /\ nPc'  = "done"
              /\ nOut' = [nOut EXCEPT !.ret = "NULL"]
  /\ UNCHANGED nBuf
  /\ UNCHANGED <<streamVars, chunkVars, oneVars, jsonVars, payVars, strVars,
                 extVars, directVars, analyzeVars, clientVars, shotVars>>

\* client = gemini_client_init(&config); free(model); if (!client) return
\* NULL. A failing init cleans up what it allocated before it returns NULL.
SendInit ==
  /\ nPc = "init"
  /\ \E ok \in BOOLEAN :
       IF ok
         THEN /\ nMem' = Free(Alloc(nMem, "client"), "model")
              /\ nPc'  = "start"
              /\ nOut' = nOut
         ELSE /\ nMem' = Free(nMem, "model")
              /\ nPc'  = "done"
              /\ nOut' = [nOut EXCEPT !.ret = "NULL"]
  /\ UNCHANGED nBuf
  /\ UNCHANGED <<streamVars, chunkVars, oneVars, jsonVars, payVars, strVars,
                 extVars, directVars, analyzeVars, clientVars, shotVars>>

\* err = gemini_client_start_request(...); on failure cleanup, return NULL.
SendStart ==
  /\ nPc = "start"
  /\ \E ok \in BOOLEAN :
       IF ok
         THEN /\ nMem' = nMem
              /\ nPc'  = "write"
              /\ nOut' = nOut
         ELSE /\ nMem' = gemini_client_cleanup(nMem)
              /\ nPc'  = "done"
              /\ nOut' = [nOut EXCEPT !.ret = "NULL"]
  /\ UNCHANGED nBuf
  /\ UNCHANGED <<streamVars, chunkVars, oneVars, jsonVars, payVars, strVars,
                 extVars, directVars, analyzeVars, clientVars, shotVars>>

\* err = gemini_client_write(...); on failure cleanup, return NULL.
SendWrite ==
  /\ nPc = "write"
  /\ \E ok \in BOOLEAN :
       IF ok
         THEN /\ nMem' = nMem
              /\ nPc'  = "perform"
              /\ nOut' = nOut
         ELSE /\ nMem' = gemini_client_cleanup(nMem)
              /\ nPc'  = "done"
              /\ nOut' = [nOut EXCEPT !.ret = "NULL"]
  /\ UNCHANGED nBuf
  /\ UNCHANGED <<streamVars, chunkVars, oneVars, jsonVars, payVars, strVars,
                 extVars, directVars, analyzeVars, clientVars, shotVars>>

\* gemini_client_finish_request up to the choice of the way the body is
\* read: esp_http_client_perform, the status code, the content length.
FinishPerform ==
  /\ nPc = "perform"
  /\ \E perform_ok \in BOOLEAN, status_200 \in BOOLEAN, known \in BOOLEAN :
       IF ~perform_ok
         THEN /\ nPc'  = "cleanup"
              /\ nOut' = [nOut EXCEPT !.err = ESP_ERR_HTTP_CONNECT]
       ELSE /\ nPc' = IF ~status_200 THEN "error_body"
                      ELSE IF known THEN "known" ELSE "chunks"
            /\ nOut' = nOut
  /\ UNCHANGED <<nMem, nBuf>>
  /\ UNCHANGED <<streamVars, chunkVars, oneVars, jsonVars, payVars, strVars,
                 extVars, directVars, analyzeVars, clientVars, shotVars>>

\* status_code != 200: the body is read into error_buf for the log.
FinishErrorBody ==
  /\ nPc = "error_body"
  /\ \E malloc_ok \in BOOLEAN, read_ok \in BOOLEAN, message \in BOOLEAN :
       IF ~malloc_ok
         THEN /\ nMem' = nMem
              /\ nOut' = [nOut EXCEPT !.err = ESP_ERR_NO_MEM]
       ELSE /\ nMem' = LET m1 == Alloc(nMem, "error_buf")
                           m2 == IF read_ok /\ message
                                   THEN Free(Alloc(m1, "message"), "message")
                                   ELSE m1
                       IN  Free(m2, "error_buf")
            /\ nOut' = [nOut EXCEPT !.err = ESP_FAIL]
  /\ nPc' = "cleanup"
  /\ UNCHANGED nBuf
  /\ UNCHANGED <<streamVars, chunkVars, oneVars, jsonVars, payVars, strVars,
                 extVars, directVars, analyzeVars, clientVars, shotVars>>

\* "Content length known": malloc(content_length + 1) and one read.
FinishKnownLength ==
  /\ nPc = "known"
  /\ \E malloc_ok \in BOOLEAN, read_len \in KnownReads :
       IF ~malloc_ok
         THEN /\ nMem' = nMem /\ nBuf' = nBuf
              /\ nOut' = [nOut EXCEPT !.err = ESP_ERR_NO_MEM]
              /\ nPc'  = "cleanup"
       ELSE IF read_len <= 0
         THEN /\ nMem' = Free(Alloc(nMem, "buffer"), "buffer")
              /\ nBuf' = [nBuf EXCEPT !.size = ContentLength + 1,
                                      !.reach = ContentLength]
              /\ nOut' = [nOut EXCEPT !.err = ESP_FAIL]
              /\ nPc'  = "cleanup"
       ELSE /\ nMem' = Alloc(nMem, "buffer")
            /\ nBuf' = [nBuf EXCEPT !.size = ContentLength + 1,
                                    !.reach = Max2(ContentLength, read_len + 1),
                                    !.nul = read_len]
            /\ nOut' = [nOut EXCEPT !.response = "buffer",
                                    !.response_len = read_len]
            /\ nPc'  = "check"
  /\ UNCHANGED <<streamVars, chunkVars, oneVars, jsonVars, payVars, strVars,
                 extVars, directVars, analyzeVars, clientVars, shotVars>>

\* "Content length unknown, read in chunks": one iteration of while (1),
\* and what follows the loop when the read ends it.
FinishReadChunk ==
  /\ nPc = "chunks"
  /\ \E realloc_ok \in BOOLEAN, read_len \in ChunkReads :
       LET chunk_count == nBuf.chunk_count + 1
           size  == ChunkAlloc(chunk_count)
           reach == Max2(nBuf.reach, nBuf.total_len + chunk_size - 1)
           mem   == IF nMem["buffer"].st = "none" THEN Alloc(nMem, "buffer")
                    ELSE nMem
       IN  /\ (chunk_count >= MaxChunks) => read_len <= 0
           /\ IF ~realloc_ok
                THEN /\ nMem' = Free(nMem, "buffer")
                     /\ nBuf' = [nBuf EXCEPT !.chunk_count = chunk_count]
                     /\ nOut' = [nOut EXCEPT !.err = ESP_ERR_NO_MEM]
                     /\ nPc'  = "cleanup"
              ELSE IF read_len > 0
                THEN /\ nMem' = mem
                     /\ nBuf' = [nBuf EXCEPT !.chunk_count = chunk_count,
                                             !.size = size, !.reach = reach,
                                             !.total_len = @ + read_len]
                     /\ nOut' = nOut
                     /\ nPc'  = "chunks"
              ELSE IF nBuf.total_len = 0
                THEN /\ nMem' = Free(mem, "buffer")
                     /\ nBuf' = [nBuf EXCEPT !.chunk_count = chunk_count,
                                             !.size = size, !.reach = reach]
                     /\ nOut' = [nOut EXCEPT !.err = ESP_FAIL]
                     /\ nPc'  = "cleanup"
              ELSE /\ nMem' = mem
                   /\ nBuf' = [nBuf EXCEPT !.chunk_count = chunk_count,
                                           !.size = size,
                                           !.reach = Max2(reach, nBuf.total_len + 1),
                                           !.nul = nBuf.total_len]
                   /\ nOut' = [nOut EXCEPT !.response = "buffer",
                                           !.response_len = nBuf.total_len]
                   /\ nPc'  = "check"
  /\ UNCHANGED <<streamVars, chunkVars, oneVars, jsonVars, payVars, strVars,
                 extVars, directVars, analyzeVars, clientVars, shotVars>>

\* "Check for API errors": check_api_error(*response) returns a message it
\* allocated, or NULL.
FinishCheckError ==
  /\ nPc = "check"
  /\ \E message \in BOOLEAN :
       IF message
         THEN LET r == RejectResponse(Alloc(nMem, "message"), nOut)
              IN  nMem' = r.mem /\ nOut' = r.out
         ELSE /\ nMem' = nMem
              /\ nOut' = [nOut EXCEPT !.err = ESP_OK]
  /\ nPc' = "cleanup"
  /\ UNCHANGED nBuf
  /\ UNCHANGED <<streamVars, chunkVars, oneVars, jsonVars, payVars, strVars,
                 extVars, directVars, analyzeVars, clientVars, shotVars>>

\* gemini_client_cleanup(client); if (err != ESP_OK || !response) return
\* NULL; return response;
SendCleanup ==
  /\ nPc = "cleanup"
  /\ nMem' = gemini_client_cleanup(nMem)
  /\ nOut' = [nOut EXCEPT !.ret = IF nOut.err # ESP_OK \/ nOut.response = "NULL"
                                    THEN "NULL" ELSE nOut.response]
  /\ nPc' = "done"
  /\ UNCHANGED nBuf
  /\ UNCHANGED <<streamVars, chunkVars, oneVars, jsonVars, payVars, strVars,
                 extVars, directVars, analyzeVars, clientVars, shotVars>>

NextSend ==
  \/ SendExtract \/ SendInit \/ SendStart \/ SendWrite
  \/ FinishPerform \/ FinishErrorBody \/ FinishKnownLength \/ FinishReadChunk
  \/ FinishCheckError \/ SendCleanup

vars == <<streamVars, chunkVars, oneVars, jsonVars, payVars, strVars, extVars,
         directVars, analyzeVars, clientVars, shotVars, sendVars>>

SpecStream == InitStream /\ [][NextStream]_vars

SpecSend == InitSend /\ [][NextSend]_vars

SpecShot == InitShot /\ [][NextShot]_vars

SpecChunk == InitChunk /\ [][NextChunk]_vars

SpecChunkAny == InitChunkAny /\ [][NextChunkAny]_vars

SpecOne == InitOne /\ [][NextOne]_vars

SpecJson == InitJson /\ [][NextJson]_vars

SpecJsonAny == InitJsonAny /\ [][NextJson]_vars

SpecPayload == InitPayload /\ [][NextPayload]_vars

SpecString == InitString /\ [][NextString]_vars

SpecExtract == InitExtract /\ [][NextExtract]_vars

SpecDirect == InitDirect /\ [][NextDirect]_vars

SpecAnalyze == InitAnalyze /\ [][NextAnalyze]_vars

SpecClient == InitClient /\ [][NextClient]_vars

(***************************************************************************)
(* Claims about the base64 encoders.                                       *)
(***************************************************************************)

\* C1: chunking invariance of esp_cam_base64_encode_stream. Once every byte
\* of x has been passed in, chunk by chunk, the concatenated output equals
\* the characters one call on the whole of x yields.
StreamChunkingInvariance ==
  (sCalls > 0 /\ sPos = Len(sInput))
    => sOut = esp_cam_base64_encode_stream(sInput, 0).out

\* C2: chunking invariance of encode_base64_chunk + encode_base64_finalize.
\* After the chunks and finalize, the concatenated output equals the output
\* of one encode_base64_chunk call on the whole input followed by finalize.
\* (From a zeroed state and with room for every character no shift is out
\* of range, so the sextet passed for that case is never used.)
WholeThenFinalize(x) ==
  LET c == encode_base64_chunk(x, calculate_base64_length(Len(x)), ZeroState, 0)
      f == encode_base64_finalize(calculate_base64_length(1), c.state, 0)
  IN  c.out \o f.out

ChunkChunkingInvariance ==
  cFin.done => cOut = WholeThenFinalize(cInput)

\* C2 witness: an input of 4 bytes was split into at least two chunks, the
\* first of which ended inside a 3-byte group, and finalize has run.
ChunkSplitWitness ==
  cFin.done /\ cCalls >= 2 /\ Len(cInput) = 4 /\ Len(cOut) = 6

\* C3: finalize padding rule. With n bytes consumed, the stream ends with
\* no pad for n mod 3 = 0, "==" for n mod 3 = 1 and "=" for n mod 3 = 2,
\* and has ceil(n/3)*4 characters in all.
PadCount(n) == IF n % 3 = 0 THEN 0 ELSE IF n % 3 = 1 THEN 2 ELSE 1

FinalizePaddingRule ==
  cFin.done =>
    LET n == Len(cInput)
        p == PadCount(n)
    IN  /\ Len(cOut) = CeilDiv3(n) * 4
        /\ cFin.ret = (IF p = 0 THEN 0 ELSE p + 1)
        /\ \A i \in 1..Len(cOut) : (cOut[i] = "=") <=> (i > Len(cOut) - p)

\* C4: esp_cam_base64_encode writes the standard padded base64 of the input
\* (ceil(n/3)*4 characters) followed by a NUL terminator.
EncodeWholeStandard ==
  sWhole.done =>
    /\ sWhole.out = StdBase64(sInput)
    /\ Len(sWhole.out) = CeilDiv3(Len(sInput)) * 4
    /\ sWhole.nul

\* C5: round trip of encode_base64. With output_size >= the calculated
\* length, the returned length is ceil(n/3)*4 and the characters written
\* decode back to x with the reference decoder.
OneShotRoundTrip ==
  (oRes.done /\ oSize >= calculate_base64_length(Len(oInput))) =>
    /\ oRes.ret = CeilDiv3(Len(oInput)) * 4
    /\ StdDecode(SubSeq(oRes.out, 1, oRes.ret)) = [ok |-> TRUE, bytes |-> oInput]

\* C5 witness: a 4-byte input (one full group, one padded group) was encoded.
OneShotWitness ==
  oRes.done /\ Len(oInput) = 4 /\ oRes.ret = 8 /\ oRes.out[7] = "="

\* C20: the capacity estimate is sufficient. For an input of n bytes,
\* calculate_base64_length(n) = esp_cam_base64_encode_len(n) = ceil(n/3)*4 + 1,
\* and neither the encode_base64_chunk calls followed by
\* encode_base64_finalize nor encode_base64 write more bytes than that, the
\* terminator included.
BytesWritten(chars, nul) == Len(chars) + (IF nul THEN 1 ELSE 0)

CapacityEstimateSufficient ==
  LET n == Len(cInput)
      one == encode_base64(cInput, calculate_base64_length(n))
  IN  /\ calculate_base64_length(n) = CeilDiv3(n) * 4 + 1
      /\ esp_cam_base64_encode_len(n) = calculate_base64_length(n)
      /\ Len(cOut) + 1 <= calculate_base64_length(cPos)
      /\ cFin.done => BytesWritten(cOut, cFin.nul) <= calculate_base64_length(n)
      /\ BytesWritten(one.out, one.nul) <= calculate_base64_length(n)

\* C20 witness: three bytes went through two or more encode_base64_chunk
\* calls and encode_base64_finalize, and the four characters and the
\* terminator fill the estimate of five bytes exactly.
CapacityWitness ==
  /\ cFin.done /\ cFin.nul /\ cCalls >= 2 /\ Len(cInput) = 3
  /\ BytesWritten(cOut, cFin.nul) = calculate_base64_length(3)

\* C21: for an input of n >= 1 bytes, encode_base64 called with an
\* output_size below calculate_base64_length(n) returns 0 and writes no
\* byte of the output buffer, neither a character nor the terminator.
SmallBufferRejected ==
  (oRes.done /\ Len(oInput) >= 1
     /\ oSize < calculate_base64_length(Len(oInput)))
    => (oRes.ret = 0 /\ oRes.out = << >> /\ ~oRes.nul)

\* C21 witness: three bytes were passed with room for the four characters
\* but not for the terminator, and the call returned 0.
SmallBufferWitness ==
  /\ oRes.done /\ Len(oInput) = 3
  /\ oSize = calculate_base64_length(3) - 1 /\ oRes.ret = 0

\* C22: when output_size is smaller than the number of characters the
\* carried bits and the chunk make up, encode_base64_chunk reports the
\* failure: it returns 0, the value its contract gives for an error, and
\* not a count of the characters that did fit.
ChunkNeeds(c) == (c.before.buffer_size + 8 * c.input_length) \div 6

ChunkOverflowReported ==
  (cLast.done /\ cLast.op = "chunk" /\ cLast.output_size < ChunkNeeds(cLast))
    => cLast.ret = 0

\* C23: encode_base64_chunk and encode_base64_finalize write no byte at an
\* index >= output_size: the characters and the terminator a call wrote
\* are at most output_size bytes, for every output_size from 0 on and
\* every state the earlier calls left.
ChunkWritesInBounds ==
  cLast.done => BytesWritten(cLast.out, cLast.nul) <= cLast.output_size

\* C23 witness: encode_base64_finalize was called with output_size 0 on a
\* state that held more than six bits, left there by a chunk call whose
\* output was too small, and wrote nothing.
InBoundsWitness ==
  /\ cLast.done /\ cLast.op = "finalize" /\ cLast.output_size = 0
  /\ cLast.before.buffer_size > 6 /\ cLast.out = << >> /\ ~cLast.nul

\* C25: encode_base64_finalize leaves buffer = 0 and buffer_size = 0, and
\* called with nothing buffered it emits no character, returns 0 and writes
\* the terminator only, and only when output_size > 0.
FinalizeResets ==
  (cLast.done /\ cLast.op = "finalize") =>
    /\ cLast.state.buffer = U32Zero /\ cLast.state.buffer_size = 0
    /\ cState = cLast.state
    /\ cLast.before.buffer_size = 0 =>
         /\ cLast.ret = 0 /\ cLast.out = << >>
         /\ cLast.nul <=> cLast.output_size > 0

\* C25 witness: the byte FF went through encode_base64_chunk, and the last
\* call was an encode_base64_finalize that found the buffer zeroed, which
\* only an earlier finalize can have done; it had room for the terminator.
SecondFinalizeWitness ==
  /\ cLast.done /\ cLast.op = "finalize" /\ cInput = << 255 >> /\ cPos = 1
  /\ cLast.before.buffer = U32Zero /\ cLast.before.buffer_size = 0
  /\ cLast.ret = 0 /\ cLast.nul

\* C24: carry invariant of esp_cam_base64_encode_stream. After calls that
\* started from state 0 and consumed t bytes in all, the carry count
\* (*state & 0x03) is t mod 3, the carried bits are the t mod 3 trailing
\* bytes, and the output so far has 4 * floor(t / 3) characters.
RECURSIVE BytesValue(_, _, _)
BytesValue(x, from, to) ==
  IF from > to THEN 0 ELSE BytesValue(x, from, to - 1) * 256 + x[to]

StreamCarryInvariant ==
  sCalls > 0 =>
    /\ sState % 4 = sPos % 3
    /\ Shr(sState, 2) = BytesValue(sInput, sPos - (sPos % 3) + 1, sPos)
    /\ Len(sOut) = 4 * (sPos \div 3)

(***************************************************************************)
(* Claims about the JSON builder.                                          *)
(***************************************************************************)
WroteNothing == Len(jBuf) = jLast.preLen

\* C7: in a properly nested sequence of start/end calls (every end matching
\* the innermost open container) with enough buffer capacity, every call
\* returns ESP_OK, and when the last container is closed the builder is back
\* in its initial state (depth 0, all flags false).
BalancedCallsSucceed ==
  (jLast.proper /\ jLast.ret # ESP_ERR_NO_MEM) =>
    /\ jLast.ret = ESP_OK
    /\ (jStack = << >>) => (jState = esp_cam_json_init)

\* C8: after successful calls, esp_cam_json_end_object returns
\* ESP_ERR_INVALID_STATE and writes nothing when the innermost open
\* container is an array or nothing is open, and esp_cam_json_end_array
\* does when the innermost open container is an object or nothing is open.
MismatchedCloseRejected ==
  /\ (jLast.op = "end_object" /\ jLast.preTop \in {"array", "none"})
       => (jLast.ret = ESP_ERR_INVALID_STATE /\ WroteNothing)
  /\ (jLast.op = "end_array" /\ jLast.preTop \in {"object", "none"})
       => (jLast.ret = ESP_ERR_INVALID_STATE /\ WroteNothing)

\* C9: after successful calls, esp_cam_json_key succeeds exactly when the
\* innermost open container is an object (buffer capacity permitting);
\* otherwise it returns ESP_ERR_INVALID_STATE and writes nothing.
KeyOnlyInObject ==
  (jLast.op = "key") =>
    /\ (jLast.ret = ESP_OK) => (jLast.preTop = "object")
    /\ (jLast.preTop = "object" /\ jLast.ret # ESP_ERR_NO_MEM)
         => (jLast.ret = ESP_OK)
    /\ (jLast.preTop # "object")
         => (jLast.ret = ESP_ERR_INVALID_STATE /\ WroteNothing)

\* C10: separator placement in sequences of successful calls. A key, value
\* or opened container written inside a container is preceded by a ","
\* exactly when something was already written in that container and the
\* previous call was not the key it follows; every "," in the buffer is
\* directly followed by the first character of an item, and none stands
\* right after "{", "[" or ":" or right before "}" or "]".
ItemOps ==
  {"start_object", "start_array", "key", "string", "number", "bool", "null"}

LeadingComma == Len(jBuf) > jLast.preLen /\ jBuf[jLast.preLen + 1] = ","

ItemStart == {"\"", "{", "[", "1", "t", "f", "n"}

OverflowWritesNothing ==
  (jLast.ret = ESP_ERR_NO_MEM) => WroteNothing

\* C13: builder buffer bound. Whatever calls are made, successful or
\* failed, len < max_len holds; every write of the builder stores the
\* terminator at buf[len], the highest index it touches, so no byte at an
\* index >= max_len is written; and every successful operation has written,
\* so that buf[len] is the terminator after it.
BufferBound ==
  /\ Len(jBuf) < jMax
  /\ (jLast.op # "none" /\ jLast.ret = ESP_OK) => Len(jBuf) > jLast.preLen

\* C13 witness: calls went on after a failed call, and a later call filled
\* the buffer, the terminator sitting in its last byte (len = max_len - 1).
BufferBoundWitness ==
  ~jAllOk /\ jLast.ret = ESP_OK /\ Len(jBuf) = jMax - 1

(***************************************************************************)
(* Claims about esp_cam_json_string.                                       *)
(***************************************************************************)
\* The escape the documentation gives for one character.
StatedEscape(c) ==
  CASE c = "\""    -> << "\\", "\"" >>
    [] c = "\\"    -> << "\\", "\\" >>
    [] c = "<BS>"  -> << "\\", "b" >>
    [] c = "<FF>"  -> << "\\", "f" >>
    [] c = "\n"    -> << "\\", "n" >>
    [] c = "\r"    -> << "\\", "r" >>
    [] c = "\t"    -> << "\\", "t" >>
    [] c = "<BEL>" -> << "\\", "u", "0", "0", "0", "7" >>
    [] c = "<US>"  -> << "\\", "u", "0", "0", "1", "f" >>
    [] OTHER       -> << c >>

RECURSIVE StatedEscapes(_)
StatedEscapes(value) ==
  IF value = << >> THEN << >>
  ELSE StatedEscape(Head(value)) \o StatedEscapes(Tail(value))

\* A conforming reader of a JSON string (RFC 8259, section 7), on the
\* characters after the opening quote: [ok, value].
HexValue(d) ==
  CASE d \in {"a", "A"} -> 10 [] d \in {"b", "B"} -> 11 [] d \in {"c", "C"} -> 12
    [] d \in {"d", "D"} -> 13 [] d \in {"e", "E"} -> 14 [] d \in {"f", "F"} -> 15
    [] d = "0" -> 0 [] d = "1" -> 1 [] d = "2" -> 2 [] d = "3" -> 3
    [] d = "4" -> 4 [] d = "5" -> 5 [] d = "6" -> 6 [] d = "7" -> 7
    [] d = "8" -> 8 [] d = "9" -> 9 [] OTHER -> -1

CharOfCode(code) ==
  CASE code = 7 -> "<BEL>" [] code = 8 -> "<BS>" [] code = 9 -> "\t"
    [] code = 10 -> "\n" [] code = 12 -> "<FF>" [] code = 13 -> "\r"
    [] code = 31 -> "<US>" [] OTHER -> "<other>"

ShortEscapes == {"\"", "\\", "/", "b", "f", "n", "r", "t"}

CharOfShortEscape(e) ==
  CASE e = "b" -> "<BS>" [] e = "f" -> "<FF>" [] e = "n" -> "\n"
    [] e = "r" -> "\r" [] e = "t" -> "\t" [] OTHER -> e

RECURSIVE ReadJsonChars(_, _)
ReadJsonChars(s, acc) ==
  IF s = << >> THEN [ok |-> FALSE, value |-> acc]
  ELSE IF s[1] = "\"" THEN [ok |-> Len(s) = 1, value |-> acc]
  ELSE IF IsControl(s[1]) THEN [ok |-> FALSE, value |-> acc]
  ELSE IF s[1] # "\\" THEN ReadJsonChars(Tail(s), Append(acc, s[1]))
  ELSE IF Len(s) >= 2 /\ s[2] \in ShortEscapes
    THEN ReadJsonChars(SubSeq(s, 3, Len(s)), Append(acc, CharOfShortEscape(s[2])))
  ELSE IF /\ Len(s) >= 6 /\ s[2] = "u"
          /\ \A k \in 3..6 : HexValue(s[k]) >= 0
    THEN ReadJsonChars(SubSeq(s, 7, Len(s)),
           Append(acc, CharOfCode(HexValue(s[3]) * 4096 + HexValue(s[4]) * 256
                                  + HexValue(s[5]) * 16 + HexValue(s[6]))))
  ELSE [ok |-> FALSE, value |-> acc]

ReadJsonString(s) ==
  IF s # << >> /\ s[1] = "\"" THEN ReadJsonChars(Tail(s), << >>)
  ELSE [ok |-> FALSE, value |-> << >>]

\* C11: esp_cam_json_string writes a quote, the stated escape of every
\* character of the value in order, and a quote; a conforming JSON string
\* reader reads the written text back as the value.
StringEscaping ==
  eRes.done =>
    /\ eRes.r.ret = ESP_OK
    /\ eRes.r.buf = << "\"" >> \o StatedEscapes(eValue) \o << "\"" >>
    /\ ReadJsonString(eRes.r.buf) = [ok |-> TRUE, value |-> eValue]

\* C11 witness: the value made of a quote, a backslash and 0x07 was written.
StringEscapingWitness ==
  /\ eRes.done /\ eValue = << "\"", "\\", "<BEL>" >>
  /\ eRes.r.buf = << "\"", "\\", "\"", "\\", "\\", "\\", "u", "0", "0", "0", "7", "\"" >>

(***************************************************************************)
(* Claims about gemini_client_extract_text.                                *)
(***************************************************************************)
\* Hello "world"
HelloWorld ==
  << "H", "e", "l", "l", "o", " ", "\"", "w", "o", "r", "l", "d", "\"" >>

\* The marker stands at offset i of the text r.
MarkerAt(r, i) ==
  /\ i + Len(text_marker) <= Len(r)
  /\ \A k \in 1..Len(text_marker) : r[i + k] = text_marker[k]

HasMarker(r) == \E i \in 0..Len(r) : MarkerAt(r, i)

\* The offset just after the first occurrence of the marker.
SpanStart(r) ==
  Len(text_marker) + CHOOSE i \in 0..Len(r) :
                       MarkerAt(r, i) /\ \A k \in 0..(i - 1) : ~MarkerAt(r, k)

\* The number of consecutive backslashes that end just before offset q,
\* counted no further back than offset start.
BackslashRun(r, start, q) ==
  Cardinality({k \in start..(q - 1) : \A m \in k..(q - 1) : r[m + 1] = "\\"})

\* The offsets, from start on, of the quotes no backslash escape is active on.
ClosingQuotes(r, start) ==
  {q \in start..(Len(r) - 1) :
     r[q + 1] = "\"" /\ BackslashRun(r, start, q) % 2 = 0}

SpanEnd(r) ==
  CHOOSE q \in ClosingQuotes(r, SpanStart(r)) :
    \A k \in ClosingQuotes(r, SpanStart(r)) : q <= k

\* U: the stated unescaping of a span.
RECURSIVE Unescaped(_)
Unescaped(span) ==
  IF span = << >> THEN << >>
  ELSE IF span[1] # "\\" THEN << span[1] >> \o Unescaped(Tail(span))
  ELSE IF Len(span) = 1 THEN << >>
  ELSE << (CASE span[2] = "n" -> "\n" [] span[2] = "r" -> "\r"
             [] span[2] = "t" -> "\t" [] span[2] = "b" -> "<BS>"
             [] span[2] = "f" -> "<FF>" [] OTHER -> span[2]) >>
       \o Unescaped(SubSeq(span, 3, Len(span)))

MallocFailed == xRes.log = "Failed to allocate memory for text"

\* C16: on the response {"candidates":[{"content":{"parts":[{"text":
\* "Hello \"world\""}]}}]} written without a space after the colon, the
\* function returns the text Hello "world".
HelloExtracted ==
  (xRes.done /\ xResponse = HelloResponse /\ ~MallocFailed) =>
    (xRes.ret = "text" /\ xRes.text = HelloWorld)

\* C17: what the function returns when the marker is found but no unescaped
\* closing quote follows differs from what it returns when the marker is
\* absent, so that a caller can tell the two cases apart.
NotFoundReturn == gemini_client_extract_text(<< "{", "}" >>, 2, TRUE).ret

MalformedIsDistinct ==
  (xRes.done /\ HasMarker(xResponse)
     /\ ClosingQuotes(xResponse, SpanStart(xResponse)) = {})
    => xRes.ret # NotFoundReturn

\* C18: on a response that does not contain the marker the function returns
\* NULL, does not call malloc, and reads nothing past the terminator.
MarkerAbsentNotFound ==
  (xRes.done /\ ~HasMarker(xResponse)) =>
    /\ xRes.ret = "NULL"
    /\ ~xRes.malloc_called
    /\ xRes.read_to <= Len(xResponse)

\* C18 witness: the response with the text field written without a space
\* was read through and reported not found.
MarkerAbsentWitness ==
  /\ xRes.done /\ xResponse = HelloResponse
  /\ xRes.log = "Text field not found in response"
  /\ xRes.read_to = Len(xResponse)

\* C19: on a response that contains the marker, the span runs from just
\* after the first occurrence of the marker to the first quote not under an
\* active backslash escape; the function returns the unescaping U of the
\* span (unless malloc fails), and NULL when no such quote comes before the
\* end of the input.
SpanUnescaped ==
  (xRes.done /\ HasMarker(xResponse)) =>
    LET r == xResponse
        start == SpanStart(r)
    IN  IF ClosingQuotes(r, start) = {}
          THEN xRes.ret = "NULL" /\ ~xRes.malloc_called
          ELSE /\ xRes.malloc_called
               /\ (xRes.ret = "NULL") <=> MallocFailed
               /\ (xRes.ret = "text")
                    => xRes.text = Unescaped(SubSeq(r, start + 1, SpanEnd(r)))

\* C19 witness: two text fields, the quote that opens the second marker
\* being escaped: the span starts after the first marker, runs over the
\* escaped quote and ends at the quote after text.
SpanWitness ==
  /\ xRes.done /\ xRes.ret = "text"
  /\ xResponse = text_marker \o << "\\" >> \o text_marker \o << "z", "\"" >>
  /\ xRes.text = << "\"", "t", "e", "x", "t" >>

(***************************************************************************)
(* Claims about the payload assembler.                                     *)
(***************************************************************************)
\* The JSON escape of one character and of a string (RFC 8259), the oracle
\* for the text field.
EscapedChar(c) ==
  CASE c = "\"" -> << "\\", "\"" >>
    [] c = "\\" -> << "\\", "\\" >>
    [] c = "\n" -> << "\\", "n" >>
    [] OTHER    -> << c >>

RECURSIVE Escaped(_)
Escaped(value) ==
  IF value = << >> THEN << >>
  ELSE EscapedChar(Head(value)) \o Escaped(Tail(value))

Quoted(str) == << "\"" >> \o str \o << "\"" >>

\* {"contents":[{"parts":[{"text":<escaped prompt>},{"inline_data":
\* {"mime_type":"image/jpeg","data":"<base64 image>"}}]}],
\* "generationConfig":{"maxOutputTokens":100}}
ExpectedDocument(prompt, image) ==
  << "{" >> \o Quoted(K_contents) \o << ":", "[", "{" >>
  \o Quoted(K_parts) \o << ":", "[", "{" >>
  \o Quoted(K_text) \o << ":" >> \o Quoted(Escaped(prompt)) \o << "}", ",", "{" >>
  \o Quoted(K_inline_data) \o << ":", "{" >>
  \o Quoted(K_mime_type) \o << ":" >> \o Quoted(V_image_jpeg) \o << "," >>
  \o Quoted(K_data) \o << ":" >> \o Quoted(StdBase64(image))
  \o << "}", "}", "]", "}", "]", "," >>
  \o Quoted(K_generationConfig) \o << ":", "{" >>
  \o Quoted(K_maxOutputTokens) \o << ":" >> \o V_100 \o << "}", "}" >>

\* C6: when the frame is captured and the buffer allocated (the document
\* fits the buffer for every prompt and image of the model), the function
\* returns exactly the balanced document above, and the builder depth is 0
\* when it returns.
PayloadIsBalancedDocument ==
  (pRes.done /\ pRes.captured /\ pRes.allocated) =>
    /\ pRes.ret = "payload"
    /\ pRes.doc = ExpectedDocument(pPrompt, pImage)
    /\ pRes.state.depth = 0

\* C14: the function never writes at an index >= json_size of the buffer it
\* allocated; when the document does not fit, it returns NULL instead.
PayloadStaysInBuffer ==
  (pRes.done /\ pRes.allocated) => pRes.high <= JsonSize(pPrompt, pImage)

\* C15: if a builder operation of the assembly failed, the function freed
\* the buffer and returned NULL; a returned payload implies that every
\* builder operation returned ESP_OK.
PayloadFailsCleanly ==
  (pRes.done /\ pRes.allocated) =>
    /\ (\E i \in 1..Len(pRes.rets) : pRes.rets[i] # ESP_OK)
         => (pRes.ret = "NULL" /\ pRes.freed)
    /\ (pRes.ret = "payload")
         => (\A i \in 1..Len(pRes.rets) : pRes.rets[i] = ESP_OK)

(***************************************************************************)
(* Claims about encodeDirectlyToGeminiJson and captureImageAsGeminiJson.   *)
(***************************************************************************)
\* "text":" and "data":" as they stand in the document.
TextKey == << "\"", "t", "e", "x", "t", "\"", ":", "\"" >>

DataKey == << "\"", "d", "a", "t", "a", "\"", ":", "\"" >>

\* The index of the quote that closes the JSON string whose first character
\* is s[i]: a backslash takes the next character with it. 0 when none.
RECURSIVE JsonStringEnd(_, _)
JsonStringEnd(s, i) ==
  IF i > Len(s) THEN 0
  ELSE IF s[i] = "\"" THEN i
  ELSE IF s[i] = "\\" THEN JsonStringEnd(s, i + 2)
  ELSE JsonStringEnd(s, i + 1)

\* The string value that follows the first occurrence of key in doc, from
\* its opening quote to its closing quote, and the text after it.
StringAfterKey(doc, key) ==
  LET at    == strstr(doc, key)
      open  == at + Len(key)
      close == IF at < 0 THEN 0 ELSE JsonStringEnd(doc, open + 1)
  IN  IF close = 0
        THEN [found |-> FALSE, quoted |-> << >>, rest |-> << >>]
        ELSE [found |-> TRUE, quoted |-> SubSeq(doc, open, close),
              rest |-> SubSeq(doc, close + 1, Len(doc))]

\* C26: for every prompt over an alphabet with '"' and '\' and every image
\* of at least one byte, encodeDirectlyToGeminiJson, given the buffer size
\* captureImageAsGeminiJson computes, writes a document whose text string
\* reads back as the prompt and whose data string is the standard padded
\* base64 of the image, and returns the number of characters before the
\* terminator.
DirectDocumentCorrect ==
  (dRes.done /\ (dRes.returned = "json_buffer"
                   \/ (dRes.op = "encode" /\ Len(dImage) >= 1))) =>
    LET text == StringAfterKey(dRes.out, TextKey)
        data == StringAfterKey(text.rest, DataKey)
    IN  /\ dRes.ret = Len(dRes.out) /\ dRes.ret > 0
        /\ dRes.high = dRes.ret + 1
        /\ text.found /\ data.found
        /\ ReadJsonString(text.quoted) = [ok |-> TRUE, value |-> dPrompt]
        /\ data.quoted = Quoted(StdBase64(dImage))

\* C26 witness: prompt P and bytes 01 02 03 gave a document of 249
\* characters with AQID as its data.
DirectDocumentWitness ==
  /\ dRes.done /\ dRes.op = "encode"
  /\ dPrompt = << "P" >> /\ dImage = << 1, 2, 3 >>
  /\ dRes.ret = 249
  /\ SubSeq(dRes.out, 141, 144) = << "A", "Q", "I", "D" >>

\* C27: the size estimate of captureImageAsGeminiJson is enough. With
\* buffer_size = calculateBase64Length(image_len) + 500 + 2 * strlen(prompt)
\* the encoder never refuses a frame of one byte or more and writes at most
\* buffer_size bytes, terminator included, although its own check counts
\* one byte for every character of the prompt.
DirectEstimateSufficient ==
  dRes.done =>
    /\ dRes.high <= dRes.buffer_size
    /\ (dRes.op = "encode" /\ Len(dImage) >= 1) => dRes.ret > 0

\* C27 witness: a prompt made of '"' and '\' only was written in twice the
\* bytes the capacity check counted for it.
DirectEstimateWitness ==
  /\ dRes.done /\ dRes.returned = "json_buffer" /\ Len(dPrompt) = MaxStr
  /\ \A i \in 1..Len(dPrompt) : dPrompt[i] \in {"\"", "\\"}
  /\ dRes.high = DirectTotalSize(Len(dImage), dPrompt) + Len(dPrompt)

(***************************************************************************)
(* Claims about ESP_CAM_CaptureAndAnalyze.                                 *)
(***************************************************************************)
\* C28: the text gemini_client_extract_text returns is in a block of its
\* own, apart from the response; in ESP_CAM_CaptureAndAnalyze the payload
\* and the response are each freed exactly once on every path that
\* allocated them, no block is read or freed after its release, and the
\* text returned is never freed: it is live, with the extracted content,
\* once the response is gone.
AnalyzeOwnership ==
  /\ ~aBad
  /\ aFrees["text"] = 0
  /\ aPc = "returned" =>
       /\ \A b \in {"payload", "response"} :
            /\ aBlocks[b] # "live"
            /\ aFrees[b] = (IF aBlocks[b] = "none" THEN 0 ELSE 1)
       /\ aRet.kind = "text" =>
            /\ aRet.block = "text" /\ aBlocks["text"] = "live"
            /\ aBlocks["response"] = "freed"
            /\ aRet.text =
                 gemini_client_extract_text(aDoc, Len(aDoc), TRUE).text
       /\ aRet.kind = "NULL" => aBlocks["text"] = "none"

\* C28 witness: the call returned the text Hello "world" after it had freed
\* the payload and the response it was extracted from.
AnalyzeWitness ==
  /\ aPc = "returned" /\ aDoc = HelloSpacedResponse
  /\ aRet.kind = "text" /\ aRet.text = HelloWorld
  /\ aFrees["payload"] = 1 /\ aFrees["response"] = 1

(***************************************************************************)
(* Claims about the request lifecycle of the Gemini client.                *)
(***************************************************************************)
\* C29: request lifecycle ordering. While no gemini_client_start_request
\* has returned ESP_OK since the client was created or since the last
\* gemini_client_finish_request that returned ESP_OK, gemini_client_write
\* and gemini_client_finish_request return ESP_ERR_INVALID_STATE and leave
\* the client and its connection as they were; gemini_client_start_request
\* returns ESP_ERR_INVALID_STATE while a request is started; and a
\* start_request whose esp_http_client_open fails leaves request_started
\* false.
RequestLifecycleOrdering ==
  kLast.done =>
    /\ (kLast.op \in {"write", "finish"} /\ ~kLast.armed) =>
         (kLast.ret = ESP_ERR_INVALID_STATE /\ kClient = kLast.before)
    /\ (kLast.op = "start" /\ kLast.armed) =>
         (kLast.ret = ESP_ERR_INVALID_STATE /\ kClient = kLast.before)
    /\ (kLast.op = "start" /\ ~kLast.armed /\ kLast.ret # ESP_OK) =>
         /\ ~kClient.request_started
         /\ kClient.opens = kLast.before.opens + 1
         /\ kClient.last_error = kLast.ret

\* C29 witness: a request was started and finished with ESP_OK, and the
\* gemini_client_write that followed was refused without a write on the
\* connection.
LifecycleWitness ==
  /\ kLast.done /\ kLast.op = "write" /\ kLast.ret = ESP_ERR_INVALID_STATE
  /\ kLast.prev.done /\ kLast.prev.op = "finish" /\ kLast.prev.ret = ESP_OK
  /\ kClient.writes = 0 /\ kClient.performs = 1

\* C30: gemini_client_finish_request on a started request clears
\* request_started exactly when it returns ESP_OK. After a failed finish
\* the next gemini_client_start_request returns ESP_ERR_INVALID_STATE;
\* after a finish that returned ESP_OK the next start_request is taken and
\* opens the connection.
FinishClearsOnlyOnSuccess ==
  kLast.done =>
    /\ (kLast.op = "finish" /\ kLast.before.request_started) =>
         (kClient.request_started <=> kLast.ret # ESP_OK)
    /\ (kLast.op = "start" /\ kLast.prev.done /\ kLast.prev.op = "finish") =>
         /\ (kLast.prev.before.request_started /\ kLast.prev.ret # ESP_OK) =>
              (kLast.ret = ESP_ERR_INVALID_STATE /\ kClient = kLast.before)
         /\ kLast.prev.ret = ESP_OK =>
              /\ kLast.ret # ESP_ERR_INVALID_STATE
              /\ kClient.opens = kLast.before.opens + 1

\* C30 witness: a finish_request failed for lack of memory on a started
\* request, and the start_request made next was refused.
FinishFailureWitness ==
  /\ kLast.done /\ kLast.op = "start" /\ kLast.ret = ESP_ERR_INVALID_STATE
  /\ kLast.prev.done /\ kLast.prev.op = "finish"
  /\ kLast.prev.ret = ESP_ERR_NO_MEM /\ kLast.prev.before.request_started

(***************************************************************************)
(* Claims about the flags of the JSON builder state.                       *)
(***************************************************************************)
\* C34: builder flag invariant. In every state reached from
\* esp_cam_json_init by builder calls, in_object and in_array are never both
\* true, both are false at depth 0, exactly one is true at depth > 0, depth
\* is never below 0, and a successful close that brings depth to 0 leaves
\* the initial state.
BuilderFlagInvariant ==
  /\ ~(jState.in_object /\ jState.in_array)
  /\ jState.depth >= 0
  /\ jState.depth = 0 => (~jState.in_object /\ ~jState.in_array)
  /\ jState.depth > 0 => (jState.in_object \/ jState.in_array)
  /\ (jLast.op \in {"end_object", "end_array"} /\ jLast.ret = ESP_OK
        /\ jState.depth = 0)
       => jState = esp_cam_json_init

\* C34 witness: an array was opened inside an array and both were closed;
\* the last close brought depth from 1 to 0.
BuilderFlagWitness ==
  /\ jBuf = << "[", "[", "]", "]" >>
  /\ jLast.op = "end_array" /\ jLast.ret = ESP_OK /\ jLast.preDepth = 1
  /\ jState = esp_cam_json_init

\* C35: a builder primitive that returns an error leaves depth, in_object,
\* in_array and needs_separator as they were before the call.
FailedCallKeepsState ==
  (jLast.op # "none" /\ jLast.ret # ESP_OK) => jState = jLast.preState

\* C35 witness: esp_cam_json_string ran out of room after it had written
\* part of the value, inside a container, and the state is as before.
FailedCallWitness ==
  /\ jLast.op = "string" /\ jLast.ret = ESP_ERR_NO_MEM
  /\ Len(jBuf) > jLast.preLen /\ jLast.preDepth > 0
  /\ jState = jLast.preState

\* ---------------------------------------------------------------------
\* C36: bit-buffer invariant of encode_base64_chunk. From a zeroed state,
\* after every call that had enough output capacity, buffer_size is 0, 2
\* or 4 and equals (8 * bytes consumed so far) mod 6, and the number of
\* characters emitted so far is floor(8 * bytes consumed / 6).
ChunkBitBufferInvariant ==
  ~cFin.done =>
    /\ cState.buffer_size \in {0, 2, 4}
    /\ cState.buffer_size = (8 * cPos) % 6
    /\ Len(cOut) = (8 * cPos) \div 6
    /\ cLast.done => cLast.ret = Len(cLast.out)

\* C36 witness: four bytes were consumed in three calls; two bits are
\* carried and five characters were emitted.
ChunkBitBufferWitness ==
  /\ ~cFin.done /\ cCalls = 3 /\ cPos = 4
  /\ cState.buffer_size = 2 /\ Len(cOut) = 5

\* ---------------------------------------------------------------------
\* C33: in ESP_CAM_CaptureAndGetGeminiPayload a captured frame is given
\* back with esp_camera_fb_return exactly once on every return path, and
\* the JSON buffer is freed on every path that returns NULL after it was
\* allocated; a returned payload was not freed.
PayloadReleasesFrameAndBuffer ==
  pRes.done =>
    /\ pRes.captured => pRes.fb_returns = 1
    /\ ~pRes.captured => pRes.fb_returns = 0
    /\ (pRes.allocated /\ pRes.ret = "NULL") => pRes.freed
    /\ pRes.ret = "payload" => (pRes.allocated /\ ~pRes.freed)

\* C33 witness: NULL was returned after the base64 data was written (the
\* overflow test after the data), with the frame given back once and the
\* buffer freed.
PayloadReleaseWitness ==
  /\ pRes.done /\ pRes.allocated /\ pRes.ret = "NULL"
  /\ Len(pRes.rets) = Len(CallsBeforeData(pPrompt))
  /\ pRes.high > Len(pRes.doc)
  /\ Len(pImage) > 0
  /\ pRes.freed /\ pRes.fb_returns = 1

\* ---------------------------------------------------------------------
\* C37: custom_cam_take_picture. When use_flash is true the LED level is
\* 0 when the call returns, whatever the capture gave; a frame is returned
\* only if its format is JPEG, its length is at least 2 and it starts
\* with FF D8; a captured frame that fails this test is given back to the
\* driver exactly once and NULL is returned.
TakePictureSafe ==
  tLast.done =>
    /\ tLast.use_flash => (tLed = 0 /\ tLast.levels = << 1, 0 >>)
    /\ tLast.ret = "fb" =>
         /\ tLast.fb.format = "PIXFORMAT_JPEG"
         /\ Len(tLast.fb.buf) >= 2
         /\ tLast.fb.buf[1] = 255 /\ tLast.fb.buf[2] = 216
         /\ tLast.fb_returns = 0
    /\ (tLast.fb # NoFrame /\ tLast.ret = "NULL") => tLast.fb_returns = 1
    /\ tLast.fb = NoFrame => (tLast.ret = "NULL" /\ tLast.fb_returns = 0)
    /\ (tLast.fb # NoFrame /\ tLast.fb.format = "PIXFORMAT_JPEG"
          /\ Len(tLast.fb.buf) >= 2
          /\ tLast.fb.buf[1] = 255 /\ tLast.fb.buf[2] = 216)
         => tLast.ret = "fb"

\* C37 witness: with the flash on, the driver gave a JPEG frame that starts
\* FF FF; it went back to the driver once, NULL was returned, the LED is
\* off.
TakePictureWitness ==
  /\ tLast.done /\ tLast.use_flash
  /\ tLast.fb = [format |-> "PIXFORMAT_JPEG", buf |-> << 255, 255 >>]
  /\ tLast.ret = "NULL" /\ tLast.fb_returns = 1
  /\ tLed = 0 /\ tLast.levels = << 1, 0 >>

\* ---------------------------------------------------------------------
\* C31: response buffer ownership in gemini_client_finish_request. Once
\* it has returned, every buffer it allocated was either freed inside it,
\* once, or handed to the caller through *response, never both and never
\* neither; it returns ESP_OK only with *response non-NULL and terminated
\* at *response_len > 0; when an API error was found the buffer is freed
\* and *response = NULL, *response_len = 0; ESP_CAM_SendGeminiRequest
\* returns the live buffer or NULL with no buffer left live.
FinishReturned == nPc \in {"cleanup", "done"} /\ nOut.err # "none"

ResponseOwnership ==
  /\ \A b \in SendBlocks : nMem[b].frees <= nMem[b].allocs
  /\ FinishReturned =>
       /\ \A b \in {"error_buf", "message"} : nMem[b].st \in {"none", "freed"}
       /\ nMem["buffer"].st = "live" <=> nOut.response = "buffer"
       /\ nMem["buffer"].st = "freed" =>
            (nOut.response = "NULL" /\ nMem["buffer"].frees = 1)
       /\ nOut.err = ESP_OK <=> nOut.response = "buffer"
       /\ nOut.err = ESP_OK =>
            /\ nOut.response_len > 0
            /\ nBuf.nul = nOut.response_len
            /\ nBuf.nul < nBuf.size
       /\ nOut.api_error =>
            /\ nOut.err = ESP_FAIL
            /\ nMem["buffer"].st = "freed"
            /\ nOut.response = "NULL" /\ nOut.response_len = 0
  /\ nPc = "done" =>
       /\ nOut.ret = "buffer" <=> nMem["buffer"].st = "live"
       /\ nOut.ret = "buffer" => nOut.err = ESP_OK

\* C31 witness: the body was read in chunks, an API error was found in
\* it, and the call has returned NULL with the buffer freed once.
ResponseOwnershipWitness ==
  /\ nPc = "done" /\ nOut.api_error /\ nOut.ret = "NULL"
  /\ nBuf.chunk_count = 2 /\ nBuf.total_len = chunk_size - 1
  /\ nMem["buffer"] = [st |-> "freed", allocs |-> 1, frees |-> 1]
  /\ nOut.response = "NULL" /\ nOut.response_len = 0

\* ---------------------------------------------------------------------
\* C32: in ESP_CAM_SendGeminiRequest the extracted model string is freed
\* exactly once and a created client is cleaned up exactly once on every
\* return path; no client exists when the function returns.
SendReleasesModelAndClient ==
  /\ nMem["model"].frees <= 1 /\ nMem["client"].frees <= 1
  /\ nMem["client"].st = "live" => nMem["model"].st = "freed"
  /\ nPc = "done" =>
       /\ nMem["model"].allocs = 1 =>
            nMem["model"] = [st |-> "freed", allocs |-> 1, frees |-> 1]
       /\ nMem["client"].allocs = 1 =>
            nMem["client"] = [st |-> "freed", allocs |-> 1, frees |-> 1]
       /\ nMem["client"].st # "live"

\* C32 witness: the call returned the response after finish_request
\* succeeded; the model and the client were each freed once.
SendReleaseWitness ==
  /\ nPc = "done" /\ nOut.err = ESP_OK /\ nOut.ret = "buffer"
  /\ nMem["model"].frees = 1 /\ nMem["client"].frees = 1
  /\ nMem["client"].st = "freed"

\* ---------------------------------------------------------------------
\* C38: in the chunk loop of gemini_client_finish_request, at every
\* iteration total_len + 1023 <= chunk_count * 1024 for the chunk_count
\* of that iteration, so each read of up to 1023 bytes at buffer +
\* total_len and the terminator at buffer[total_len] stay inside the
\* chunk_count * 1024 bytes allocated.
ChunkLoopInBounds ==
  /\ nPc = "chunks" =>
       nBuf.total_len + (chunk_size - 1) <= (nBuf.chunk_count + 1) * chunk_size
  /\ nBuf.total_len <= nBuf.chunk_count * (chunk_size - 1)
  /\ nBuf.reach <= nBuf.size
  /\ nBuf.nul < nBuf.size

\* C38 witness: two reads of 1023 bytes, then the end of the body: the
\* terminator is at index 2046 of 3072 bytes.
ChunkLoopWitness ==
  /\ nBuf.chunk_count = 3 /\ nBuf.total_len = 2 * (chunk_size - 1)
  /\ nBuf.nul = 2046 /\ nBuf.size = 3 * chunk_size
  /\ nBuf.reach = 2 * (chunk_size - 1) + chunk_size - 1

====
